---- MODULE Spec2Model ----
(***************************************************************************)
(* Model of the log-helper core: the log scanner (LogParser), the SQL      *)
(* reconstructor (sql_formatter) and the entry points built on them.       *)
(*                                                                         *)
(* Two scanner variants live in the repository and both are modelled:      *)
(*   - src/src/core/log_parser.rs        the line-streamed scanner         *)
(*   - src/src-tauri/src/core/log_parser.rs   the whole-file scanner       *)
(* Operators of the second variant carry the prefix "Tauri".               *)
(*                                                                         *)
(* Text is a sequence of one-character strings, so that trimming, regex    *)
(* captures and placeholder substitution are computed, not assumed.        *)
(* A log line is a record of the features the compiled patterns look at:   *)
(*   ts     leading timestamp matched by TIMESTAMP_REGEX ("" when absent)  *)
(*   corr   the timestamp is followed by ",LEVEL,hint," (correlated form)  *)
(*   mark   which marker the line carries: id=<hex> sql= / id=<hex> params=*)
(*   id     the hex id of the marker                                       *)
(*   rest   the text after "sql="                                          *)
(*   open   the text after "params=" starts with "[" and one more char     *)
(*   toks   the non-empty [...] groups after "params=", in order           *)
(*   dao    class name of a DAO "completed" marker in the line ("" if none)*)
(* A line carries at most one marker.  A pattern applied to one line stays *)
(* inside it; the whole-content sql pattern of the Tauri parse_log_file can *)
(* run over a line break (TauriSqlCaptureAt).                              *)
(***************************************************************************)
EXTENDS Integers, Sequences, FiniteSets, TLC

VARIABLES
    file,        \* the decoded lines of the log file
    fileExists,  \* file_helper::file_exists(log_file_path)
    pc,          \* "idle" | "scan" | "done": position of the one call of this run
    op,          \* entry point that was called ("" while idle)
    target,      \* the target_id argument ("" for entry points without one)
    i,           \* index of the next line read by the streamed scan
    adv,         \* loop state of parse_log_file_advanced
    result,      \* value returned by the call
    argQuery,    \* replace_placeholders: the query argument
    argParams,   \* replace_placeholders: the params argument (split tokens)
    autoCopy,    \* process_query / process_last_query: the auto_copy argument
    clipboard,   \* the calls of clipboard::copy_to_clipboard so far: text and outcome
    state,       \* the Tauri AppState: its mutexes and the data they guard
    commands     \* the Tauri command each thread runs and where it stands

vars == <<file, fileExists, pc, op, target, i, adv, result,
          argQuery, argParams, autoCopy, clipboard, state, commands>>

-----------------------------------------------------------------------------
(* Text helpers                                                            *)

Min(a, b) == IF a <= b THEN a ELSE b

\* char::is_whitespace over the characters used in the model
IsSpace(c) == c \in {" ", "\n"}

RECURSIVE TrimStart(_)
\* str::trim_start
TrimStart(s) ==
    IF s = <<>> THEN <<>>
    ELSE IF IsSpace(Head(s)) THEN TrimStart(Tail(s)) ELSE s

RECURSIVE TrimEnd(_)
\* str::trim_end
TrimEnd(s) ==
    IF s = <<>> THEN <<>>
    ELSE IF IsSpace(s[Len(s)]) THEN TrimEnd(SubSeq(s, 1, Len(s) - 1)) ELSE s

\* str::trim
Trim(s) == TrimEnd(TrimStart(s))

\* Capture group (.+) of "sql=\s*(.+)": \s* is greedy but gives back one
\* character when the rest is all whitespace; no match on an empty rest.
SqlCaptures(rest) == rest # <<>>

SqlCapture(rest) ==
    IF TrimStart(rest) = <<>> THEN <<rest[Len(rest)]>> ELSE TrimStart(rest)

-----------------------------------------------------------------------------
(* Characters: case mapping and digits                                     *)

UpperChars == <<"A","B","C","D","E","F","G","H","I","J","K","L","M",
                "N","O","P","Q","R","S","T","U","V","W","X","Y","Z">>
LowerChars == <<"a","b","c","d","e","f","g","h","i","j","k","l","m",
                "n","o","p","q","r","s","t","u","v","w","x","y","z">>
DigitChars == <<"0","1","2","3","4","5","6","7","8","9">>

IndexIn(c, seq) == IF \E k \in 1..Len(seq) : seq[k] = c
                   THEN CHOOSE k \in 1..Len(seq) : seq[k] = c ELSE 0

ToLowerChar(c) == IF IndexIn(c, UpperChars) > 0
                  THEN LowerChars[IndexIn(c, UpperChars)] ELSE c
ToUpperChar(c) == IF IndexIn(c, LowerChars) > 0
                  THEN UpperChars[IndexIn(c, LowerChars)] ELSE c

\* str::to_lowercase / str::to_uppercase
ToLowercase(s) == [k \in 1..Len(s) |-> ToLowerChar(s[k])]
ToUppercase(s) == [k \in 1..Len(s) |-> ToUpperChar(s[k])]

\* char::is_ascii_digit, the digits str::parse::<i32> accepts
IsAsciiDigit(c) == IndexIn(c, DigitChars) > 0

\* characters outside 0-9 of the Unicode number categories (Nd, Nl, No)
OtherNumericChars == {"½"}

\* char::is_numeric over the characters used in the model
IsNumeric(c) == IsAsciiDigit(c) \/ c \in OtherNumericChars

RECURSIVE DigitsValue(_, _)
\* value of a digit string, accumulated left to right
DigitsValue(s, acc) ==
    IF s = <<>> THEN acc
    ELSE DigitsValue(Tail(s), acc * 10 + (IndexIn(Head(s), DigitChars) - 1))

RECURSIVE StripZeros(_)
StripZeros(s) == IF Len(s) > 1 /\ Head(s) = "0" THEN StripZeros(Tail(s)) ELSE s

RECURSIVE DigitsLeq(_, _)
\* a <= b for digit strings of equal length
DigitsLeq(a, b) ==
    IF a = <<>> THEN TRUE
    ELSE IF Head(a) # Head(b)
         THEN IndexIn(Head(a), DigitChars) < IndexIn(Head(b), DigitChars)
         ELSE DigitsLeq(Tail(a), Tail(b))

\* i32::MAX and the magnitude of i32::MIN, as digit strings
I32MaxDigits == <<"2","1","4","7","4","8","3","6","4","7">>
I32MinDigits == <<"2","1","4","7","4","8","3","6","4","8">>

\* str::parse::<i32>: optional sign, at least one digit, digits only, in
\* range.  [ok |-> FALSE] stands for Err(ParseIntError).
ParseI32(s) ==
    LET signed == s # <<>> /\ Head(s) \in {"+", "-"}
        neg    == signed /\ Head(s) = "-"
        digits == IF signed THEN Tail(s) ELSE s
        mag    == StripZeros(digits)
        limit  == IF neg THEN I32MinDigits ELSE I32MaxDigits
    IN  IF digits = <<>> \/ \E k \in 1..Len(digits) : ~IsAsciiDigit(digits[k])
        THEN [ok |-> FALSE, val |-> 0]
        ELSE IF Len(mag) > Len(limit) \/ (Len(mag) = Len(limit) /\ ~DigitsLeq(mag, limit))
        THEN [ok |-> FALSE, val |-> 0]
        ELSE IF mag = I32MinDigits
        THEN [ok |-> TRUE, val |-> (0 - DigitsValue(I32MaxDigits, 0)) - 1]
        ELSE [ok |-> TRUE, val |-> IF neg THEN 0 - DigitsValue(mag, 0)
                                          ELSE DigitsValue(mag, 0)]

-----------------------------------------------------------------------------
(* sql_formatter::replace_placeholders                                     *)
(* A token is what param.splitn(3, ':') yields: <<TYPE, POSITION, VALUE>>, *)
(* or fewer fields when the token has fewer than two ':'.  VALUE keeps any *)
(* further ':' as ordinary characters.                                     *)

\* EscapeQuotes that leaves embedded single quotes as they are
EscapeQuotes_Identity(v) == v

RECURSIVE EscapeQuotes(_)
\* value.replace('\'', "''")
EscapeQuotes(v) ==
    IF v = <<>> THEN <<>>
    ELSE (IF Head(v) = "'" THEN <<"'", "'">> ELSE <<Head(v)>>) \o EscapeQuotes(Tail(v))

Quoted(v) == <<"'">> \o EscapeQuotes(v) \o <<"'">>

StringTypes  == { <<"s","t","r","i","n","g">>, <<"t","i","m","e","s","t","a","m","p">>,
                  <<"d","a","t","e">> }
BooleanTypes == { <<"b","o","o","l","e","a","n">> }
NumericTypes == { <<"b","i","g","d","e","c","i","m","a","l">>, <<"n","u","m","b","e","r">>,
                  <<"i","n","t">>, <<"l","o","n","g">>, <<"f","l","o","a","t">>,
                  <<"d","o","u","b","l","e">> }

\* ParsedValue that tests the type before the null value
ParsedValue_TypeFirst(param_type, value) ==
    IF param_type \in StringTypes THEN Quoted(value)
    ELSE IF param_type \in BooleanTypes THEN ToUppercase(value)
    ELSE IF param_type \in NumericTypes THEN value
    ELSE IF value = <<"n","u","l","l">> THEN <<"N","U","L","L">>
    ELSE IF \A k \in 1..Len(value) : IsNumeric(value[k]) \/ value[k] = "."
         THEN value
         ELSE Quoted(value)

\* ParsedValue that emits the value of an unknown type as it is
ParsedValue_UnknownVerbatim(param_type, value) ==
    IF value = <<"n","u","l","l">> THEN <<"N","U","L","L">>
    ELSE IF param_type \in StringTypes THEN Quoted(value)
    ELSE IF param_type \in BooleanTypes THEN ToUppercase(value)
    ELSE value

\* the literal inserted for one well-formed token (lines 84-116)
ParsedValue(param_type, value) ==
    IF value = <<"n","u","l","l">> THEN <<"N","U","L","L">>
    ELSE IF param_type \in StringTypes THEN Quoted(value)
    ELSE IF param_type \in BooleanTypes THEN ToUppercase(value)
    ELSE IF param_type \in NumericTypes THEN value
    ELSE IF \A k \in 1..Len(value) : IsNumeric(value[k]) \/ value[k] = "."
         THEN value
         ELSE Quoted(value)

\* MapInsert that keeps the value a key already has
MapInsert_KeepFirst(m, k, v) ==
    [x \in (DOMAIN m) \cup {k} |-> IF x \in DOMAIN m THEN m[x] ELSE v]

MapInsert(m, k, v) == [x \in (DOMAIN m) \cup {k} |-> IF x = k THEN v ELSE m[x]]

RECURSIVE BuildValuesByPos(_, _, _)
\* the loop over params (lines 73-118): the position -> literal map, or the
\* error of the first token whose POSITION does not parse
BuildValuesByPos(params, k, m) ==
    IF k > Len(params) THEN [ok |-> TRUE, map |-> m]
    ELSE LET parts == params[k] IN
         IF Len(parts) # 3 THEN BuildValuesByPos(params, k + 1, m)
         ELSE LET pos == ParseI32(parts[2]) IN
              IF ~pos.ok THEN [ok |-> FALSE, map |-> m]
              ELSE BuildValuesByPos(params, k + 1,
                       MapInsert(m, pos.val, ParsedValue(ToLowercase(parts[1]), parts[3])))

RECURSIVE FillPlaceholders_NoAdvance(_, _, _, _)
\* FillPlaceholders whose position counter is not advanced after a placeholder
FillPlaceholders_NoAdvance(query, k, index, m) ==
    IF k > Len(query) THEN [ok |-> TRUE, sql |-> <<>>, missing |-> 0]
    ELSE IF query[k] = "?"
    THEN IF index \in DOMAIN m
         THEN LET r == FillPlaceholders_NoAdvance(query, k + 1, index, m)
              IN  [r EXCEPT !.sql = m[index] \o @]
         ELSE [ok |-> FALSE, sql |-> <<>>, missing |-> index]
    ELSE LET r == FillPlaceholders_NoAdvance(query, k + 1, index, m)
         IN  [r EXCEPT !.sql = <<query[k]>> \o @]

RECURSIVE FillPlaceholders_KeepPlaceholder(_, _, _, _)
\* FillPlaceholders that keeps the "?" of a missing position and goes on
FillPlaceholders_KeepPlaceholder(query, k, index, m) ==
    IF k > Len(query) THEN [ok |-> TRUE, sql |-> <<>>, missing |-> 0]
    ELSE IF query[k] = "?"
    THEN LET r == FillPlaceholders_KeepPlaceholder(query, k + 1, index + 1, m)
         IN  [r EXCEPT !.sql = (IF index \in DOMAIN m THEN m[index] ELSE <<"?">>) \o @]
    ELSE LET r == FillPlaceholders_KeepPlaceholder(query, k + 1, index, m)
         IN  [r EXCEPT !.sql = <<query[k]>> \o @]

RECURSIVE FillPlaceholders_CountValueMarks(_, _, _, _)
\* FillPlaceholders whose counter also advances for each "?" of the value
\* it inserts
FillPlaceholders_CountValueMarks(query, k, index, m) ==
    IF k > Len(query) THEN [ok |-> TRUE, sql |-> <<>>, missing |-> 0]
    ELSE IF query[k] = "?"
    THEN IF index \in DOMAIN m
         THEN LET marks == Cardinality({h \in 1..Len(m[index]) : m[index][h] = "?"})
                  r == FillPlaceholders_CountValueMarks(query, k + 1,
                                                        index + 1 + marks, m)
              IN  [r EXCEPT !.sql = m[index] \o @]
         ELSE [ok |-> FALSE, sql |-> <<>>, missing |-> index]
    ELSE LET r == FillPlaceholders_CountValueMarks(query, k + 1, index, m)
         IN  [r EXCEPT !.sql = <<query[k]>> \o @]

RECURSIVE FillPlaceholders(_, _, _, _)
\* the loop over query.chars() (lines 124-141)
FillPlaceholders(query, k, index, m) ==
    IF k > Len(query) THEN [ok |-> TRUE, sql |-> <<>>, missing |-> 0]
    ELSE IF query[k] = "?"
    THEN IF index \in DOMAIN m
         THEN LET r == FillPlaceholders(query, k + 1, index + 1, m)
              IN  [r EXCEPT !.sql = m[index] \o @]
         ELSE [ok |-> FALSE, sql |-> <<>>, missing |-> index]
    ELSE LET r == FillPlaceholders(query, k + 1, index, m)
         IN  [r EXCEPT !.sql = <<query[k]>> \o @]

\* Result<String, String>: ok, the filled text, and for
\* Err("Missing value for position N") the N (0 for "Invalid parameter index")
replace_placeholders(query, params) ==
    LET built == BuildValuesByPos(params, 1, <<>>)
    IN  IF ~built.ok THEN [ok |-> FALSE, sql |-> <<>>, missing |-> 0]
        ELSE LET r == FillPlaceholders(query, 1, 1, built.map)
             IN  IF r.ok THEN r ELSE [ok |-> FALSE, sql |-> <<>>, missing |-> r.missing]

\* FilledOrTemplate that gives the empty text when the substitution fails
FilledOrTemplate_Empty(sql, params) ==
    LET r == replace_placeholders(sql, params)
    IN  IF r.ok THEN r.sql ELSE <<>>

\* .unwrap_or_else(|_| sql.clone())
FilledOrTemplate(sql, params) ==
    LET r == replace_placeholders(sql, params)
    IN  IF r.ok THEN r.sql ELSE sql

-----------------------------------------------------------------------------
(* src/src-tauri/src/state.rs: AppState                                    *)

\* default_encoding() of the configuration
DefaultEncoding == "SHIFT_JIS"

Encodings == {"SHIFT_JIS", "UTF-8"}

\* the four Mutex fields of AppState
Mutexes == {"config_manager", "config", "query_processor", "connection_manager"}

MaxThreads == 2

\* the threads Tauri runs commands on
Threads == 1..MaxThreads

\* AppState::new: every mutex is free (holder 0), and the parser of the
\* query processor starts with the encoding of the loaded configuration
AppStateNew(encoding) ==
    [config_manager |-> [holder |-> 0],
     config |-> [holder |-> 0, encoding |-> encoding],
     query_processor |-> [holder |-> 0, encoding |-> encoding],
     connection_manager |-> [holder |-> 0]]

\* a thread that runs no command
NoCommand == [cmd |-> "", encoding |-> "", pc |-> "idle", used |-> ""]

\* a thread whose command has returned
Finished == [NoCommand EXCEPT !.pc = "done"]

NoCommands == [t \in Threads |-> NoCommand]

-----------------------------------------------------------------------------
(* Log lines and what the compiled patterns see in them                    *)

BlankLine ==
    [ts |-> "", corr |-> FALSE, mark |-> "none", id |-> "", rest |-> <<>>,
     open |-> FALSE, toks |-> <<>>, dao |-> ""]

\* "<ts>,LEVEL,hint,id=<id> sql=<rest>" when corr, else "[<ts> ]id=<id> sql=<rest>"
SqlLine(ts, corr, id, rest) ==
    [BlankLine EXCEPT !.ts = ts, !.corr = corr, !.mark = "sql", !.id = id, !.rest = rest]

\* "[<ts> ]id=<id> params=<[tok][tok]...>"
ParamsLine(ts, id, open, toks) ==
    [BlankLine EXCEPT !.ts = ts, !.mark = "params", !.id = id, !.open = open, !.toks = toks]

\* a timestamped line without marker, possibly carrying the DAO marker
NoteLine(ts, dao) == [BlankLine EXCEPT !.ts = ts, !.dao = dao]

\* line.trim().is_empty()
IsBlank(line) == line.mark = "none" /\ line.ts = "" /\ line.dao = ""

\* ID_SQL_REGEX  id=([a-f0-9]+)\s+sql=
IdSqlMatches(line) == line.mark = "sql"

\* ID_PARAMS_REGEX  id=([a-f0-9]+)\s+params=
IdParamsMatches(line) == line.mark = "params"

\* TIMESTAMP_REGEX  ^(\d{4}/\d{2}/\d{2}\s+\d{2}:\d{2}:\d{2})
TimestampMatches(line) == line.ts # ""

\* DAO_REGEX
DaoMatches(line) == line.dao # ""

\* simple_sql_pattern  id=<target>\s+sql=\s*(.+)
SimpleSqlMatches(line, target_id) ==
    line.mark = "sql" /\ line.id = target_id /\ SqlCaptures(line.rest)

\* full_line_pattern  ^(ts),\w+,([^,]+),.*id=<target>\s+sql=\s*(.+)
FullLineMatches(line, target_id) ==
    line.ts # "" /\ line.corr /\ SimpleSqlMatches(line, target_id)

\* params_pattern  id=<target>\s+params=(\[[^\n]+)
ParamsMatches(line, target_id) ==
    line.mark = "params" /\ line.id = target_id /\ line.open

\* parse_params_string applied to the text after "params=": PARAM_REGEX
\* \[([^\]]+)\] collects the non-empty bracket groups in order
parse_params_string(line) == line.toks

DaoWindow == 50

\* find_dao_class_name that reads every line after the SQL line
find_dao_class_name_WholeFile(lines, sql_line_index) ==
    LET hits == {k \in (sql_line_index + 1)..Len(lines) : DaoMatches(lines[k])}
    IN  IF hits = {} THEN "Unknown"
        ELSE lines[CHOOSE k \in hits : \A h \in hits : k <= h].dao

\* find_dao_class_name; sql_line_index is the 1-based index of the SQL line,
\* so the 0-based range (idx+1)..min(len, idx+50) reads lines k+1 .. min(len, k+49)
find_dao_class_name(lines, sql_line_index) ==
    LET search_end == Min(Len(lines), (sql_line_index - 1) + DaoWindow)
        hits == {k \in (sql_line_index + 1)..search_end : DaoMatches(lines[k])}
    IN  IF hits = {} THEN "Unknown"
        ELSE lines[CHOOSE k \in hits : \A h \in hits : k <= h].dao

-----------------------------------------------------------------------------
(* src/src/core/log_parser.rs: parse_log_file_advanced (findAllExecutionsById) *)

AdvInit ==
    [current_sql |-> <<>>, current_timestamp |-> "", current_dao |-> "",
     execution_count |-> 0, executions |-> <<>>]

\* timestamp of a bare SQL line: its own, else the preceding line's, else empty
SimpleTimestamp(lines, k) ==
    IF TimestampMatches(lines[k]) THEN lines[k].ts
    ELSE IF k > 1 /\ TimestampMatches(lines[k - 1]) THEN lines[k - 1].ts
    ELSE ""

\* step 1 of the loop body (lines 180-220): a SQL line replaces the context
AdvancedSql(st, lines, k, target_id) ==
    [st EXCEPT
       !.current_sql = SqlCapture(lines[k].rest),
       !.current_timestamp =
            IF FullLineMatches(lines[k], target_id) THEN lines[k].ts
            ELSE SimpleTimestamp(lines, k),
       !.current_dao = find_dao_class_name(lines, k)]

\* AdvancedParams with the counter increment lost
AdvancedParams_NoIncrement(st, lines, k, target_id) ==
    IF st.current_sql # <<>>
    THEN LET params == parse_params_string(lines[k])
             tstamp == IF TimestampMatches(lines[k]) THEN lines[k].ts
                       ELSE st.current_timestamp
         IN  [st EXCEPT
                !.executions = Append(st.executions,
                    [id |-> target_id, timestamp |-> tstamp,
                     dao_file |-> st.current_dao, sql |-> st.current_sql,
                     filled_sql |-> FilledOrTemplate(st.current_sql, params),
                     params |-> params,
                     execution_index |-> st.execution_count + 1])]
    ELSE st

\* step 2 of the loop body (lines 222-253): a params line appends an Execution
AdvancedParams(st, lines, k, target_id) ==
    IF st.current_sql # <<>>
    THEN LET params == parse_params_string(lines[k])
             tstamp == IF TimestampMatches(lines[k]) THEN lines[k].ts
                       ELSE st.current_timestamp
         IN  [st EXCEPT
                !.execution_count = st.execution_count + 1,
                !.executions = Append(st.executions,
                    [id |-> target_id, timestamp |-> tstamp,
                     dao_file |-> st.current_dao, sql |-> st.current_sql,
                     filled_sql |-> FilledOrTemplate(st.current_sql, params),
                     params |-> params,
                     execution_index |-> st.execution_count + 1])]
    ELSE st

\* AdvancedLine with first-template-wins: a SQL line is ignored once a
\* template is set
AdvancedLine_FirstWins(st, lines, k, target_id) ==
    IF FullLineMatches(lines[k], target_id) \/ SimpleSqlMatches(lines[k], target_id)
    THEN IF st.current_sql = <<>> THEN AdvancedSql(st, lines, k, target_id) ELSE st
    ELSE IF ParamsMatches(lines[k], target_id)
    THEN AdvancedParams(st, lines, k, target_id)
    ELSE st

\* one iteration of the loop over lines (lines 178-254)
AdvancedLine(st, lines, k, target_id) ==
    IF FullLineMatches(lines[k], target_id) \/ SimpleSqlMatches(lines[k], target_id)
    THEN AdvancedSql(st, lines, k, target_id)
    ELSE IF ParamsMatches(lines[k], target_id)
    THEN AdvancedParams(st, lines, k, target_id)
    ELSE st

\* AdvancedFinish whose fallback does not test that a template was found
AdvancedFinish_NoTemplateTest(st, target_id) ==
    IF st.executions = <<>>
    THEN << [id |-> target_id, timestamp |-> st.current_timestamp,
             dao_file |-> st.current_dao, sql |-> st.current_sql,
             filled_sql |-> st.current_sql, params |-> <<>>,
             execution_index |-> 1] >>
    ELSE st.executions

\* after the loop (lines 267-279): a template without any execution yields one
AdvancedFinish(st, target_id) ==
    IF st.executions = <<>> /\ st.current_sql # <<>>
    THEN << [id |-> target_id, timestamp |-> st.current_timestamp,
             dao_file |-> st.current_dao, sql |-> st.current_sql,
             filled_sql |-> st.current_sql, params |-> <<>>,
             execution_index |-> 1] >>
    ELSE st.executions

RECURSIVE AdvancedLoop(_, _, _, _)
\* the loop state after lines k..Len(lines) have been read starting from st
AdvancedLoop(st, lines, k, target_id) ==
    IF k > Len(lines) THEN st
    ELSE AdvancedLoop(AdvancedLine(st, lines, k, target_id), lines, k + 1, target_id)

\* the whole call, as process_query uses it
parse_log_file_advanced(exists, lines, target_id) ==
    IF ~exists \/ lines = <<>> THEN <<>>
    ELSE AdvancedFinish(AdvancedLoop(AdvInit, lines, 1, target_id), target_id)

-----------------------------------------------------------------------------
(* src/src/core/log_parser.rs: get_all_ids (listIds)                       *)

\* ids.iter_mut() ... params_count += 1; break  -- the first entry with this id
BumpParamsCount(ids, id) ==
    LET hits == {k \in 1..Len(ids) : ids[k].id = id}
    IN  IF hits = {} THEN ids
        ELSE LET first == CHOOSE k \in hits : \A h \in hits : k <= h
             IN  [ids EXCEPT ![first].params_count = @ + 1]

\* if !seen_ids.contains(&id) { seen_ids.insert; ids.push(IdInfo{..}) }
EnrollId(ids, id) ==
    IF \E k \in 1..Len(ids) : ids[k].id = id THEN ids
    ELSE Append(ids, [id |-> id, has_sql |-> TRUE, params_count |-> 0])

\* AllIdsLine that enrolls an id on a params line as well
AllIdsLine_EnrollOnParams(ids, line) ==
    LET enrolled == IF IdSqlMatches(line) \/ IdParamsMatches(line)
                    THEN EnrollId(ids, line.id) ELSE ids
    IN  IF IdParamsMatches(line) THEN BumpParamsCount(enrolled, line.id) ELSE enrolled

\* one iteration of the loop over lines (lines 296-327)
AllIdsLine(ids, line) ==
    LET enrolled == IF IdSqlMatches(line) THEN EnrollId(ids, line.id) ELSE ids
    IN  IF IdParamsMatches(line) THEN BumpParamsCount(enrolled, line.id) ELSE enrolled

RECURSIVE AllIdsLoop(_, _, _)
AllIdsLoop(ids, lines, k) ==
    IF k > Len(lines) THEN ids
    ELSE AllIdsLoop(AllIdsLine(ids, lines[k]), lines, k + 1)

get_all_ids(exists, lines) ==
    IF ~exists THEN <<>> ELSE AllIdsLoop(<<>>, lines, 1)

-----------------------------------------------------------------------------
(* src/src/core/log_parser.rs: get_last_query (findLastQuery)              *)

EmptyQueryResult == [id |-> "", sql |-> <<>>, params |-> <<>>]

\* LastQueryLine that keeps the params found so far when a new SQL line is read
LastQueryLine_KeepParams(res, line) ==
    IF IdSqlMatches(line)
    THEN IF Trim(line.rest) # <<>>
         THEN [id |-> line.id, sql |-> Trim(line.rest), params |-> res.params]
         ELSE res
    ELSE IF res.id # "" /\ IdParamsMatches(line) /\ line.id = res.id
    THEN [res EXCEPT !.params = parse_params_string(line)]
    ELSE res

\* LastQueryLine that keeps the first SQL line instead of the last
LastQueryLine_FirstWins(res, line) ==
    IF IdSqlMatches(line)
    THEN IF Trim(line.rest) # <<>> /\ res.id = ""
         THEN [id |-> line.id, sql |-> Trim(line.rest), params |-> <<>>]
         ELSE res
    ELSE IF res.id # "" /\ IdParamsMatches(line) /\ line.id = res.id
    THEN [res EXCEPT !.params = parse_params_string(line)]
    ELSE res

\* one iteration of the loop over lines (lines 345-392)
LastQueryLine(res, line) ==
    IF IdSqlMatches(line)
    THEN IF Trim(line.rest) # <<>>
         THEN [id |-> line.id, sql |-> Trim(line.rest), params |-> <<>>]
         ELSE res
    ELSE IF res.id # "" /\ IdParamsMatches(line) /\ line.id = res.id
    THEN [res EXCEPT !.params = parse_params_string(line)]
    ELSE res

RECURSIVE LastQueryLoop(_, _, _)
LastQueryLoop(res, lines, k) ==
    IF k > Len(lines) THEN res
    ELSE LastQueryLoop(LastQueryLine(res, lines[k]), lines, k + 1)

get_last_query(exists, lines) ==
    IF ~exists THEN EmptyQueryResult ELSE LastQueryLoop(EmptyQueryResult, lines, 1)

-----------------------------------------------------------------------------
(* src/src/core/log_parser.rs: parse_log_file (findById)                   *)

\* one iteration of the loop over lines (lines 109-135); st carries the
\* result and the two found flags
ParseLogFileLine(st, line, target_id) ==
    LET s1 == IF ~st.found_sql /\ SimpleSqlMatches(line, target_id)
              THEN [st EXCEPT !.sql = Trim(SqlCapture(line.rest)), !.found_sql = TRUE]
              ELSE st
    IN  IF ~s1.found_params /\ ParamsMatches(line, target_id)
        THEN [s1 EXCEPT !.params = parse_params_string(line), !.found_params = TRUE]
        ELSE s1

RECURSIVE ParseLogFileLoop(_, _, _, _)
ParseLogFileLoop(st, lines, k, target_id) ==
    IF k > Len(lines) \/ (st.found_sql /\ st.found_params) THEN st
    ELSE ParseLogFileLoop(ParseLogFileLine(st, lines[k], target_id), lines, k + 1, target_id)

parse_log_file(exists, lines, target_id) ==
    LET st == IF ~exists
              THEN [sql |-> <<>>, params |-> <<>>, found_sql |-> FALSE, found_params |-> FALSE]
              ELSE ParseLogFileLoop([sql |-> <<>>, params |-> <<>>,
                                     found_sql |-> FALSE, found_params |-> FALSE],
                                    lines, 1, target_id)
    IN  [id |-> target_id, sql |-> st.sql, params |-> st.params]

-----------------------------------------------------------------------------
(* src/src/core/sql_formatter.rs: format_sql and format_params             *)

NotFoundText == <<"N","o","t"," ","f","o","u","n","d">>

\* let keywords = ["SELECT", "FROM", "WHERE", "AND", "OR", "ORDER BY", "GROUP BY"]
Keywords ==
    << <<"S","E","L","E","C","T">>, <<"F","R","O","M">>, <<"W","H","E","R","E">>,
       <<"A","N","D">>, <<"O","R">>, <<"O","R","D","E","R"," ","B","Y">>,
       <<"G","R","O","U","P"," ","B","Y">> >>

RECURSIVE ReplaceKeyword(_, _, _, _)
\* the inner loop (lines 22-32): every match of " KEYWORD " in the upper-cased
\* text, left to right without overlap, is replaced by "\nKEYWORD "; k is the
\* position examined
ReplaceKeyword(formatted, upper_formatted, keyword, k) ==
    LET pattern == <<" ">> \o keyword \o <<" ">> IN
    IF k > Len(formatted) THEN <<>>
    ELSE IF k + Len(pattern) - 1 <= Len(formatted)
            /\ SubSeq(upper_formatted, k, k + Len(pattern) - 1) = pattern
    THEN (<<"\n">> \o keyword \o <<" ">>)
             \o ReplaceKeyword(formatted, upper_formatted, keyword, k + Len(pattern))
    ELSE <<formatted[k]>> \o ReplaceKeyword(formatted, upper_formatted, keyword, k + 1)

RECURSIVE FormatKeywords(_, _)
\* the loop over keywords (lines 17-33), from keyword n on
FormatKeywords(formatted, n) ==
    IF n > Len(Keywords) THEN formatted
    ELSE FormatKeywords(
             ReplaceKeyword(formatted, ToUppercase(formatted), Keywords[n], 1), n + 1)

format_sql(sql) ==
    IF sql = <<>> THEN NotFoundText ELSE Trim(FormatKeywords(sql, 1))

RECURSIVE JoinColon(_)
\* the raw token a list of parts was split from
JoinColon(parts) ==
    IF parts = <<>> THEN <<>>
    ELSE IF Len(parts) = 1 THEN parts[1]
    ELSE parts[1] \o <<":">> \o JoinColon(Tail(parts))

\* one line of format_params (lines 48-60)
FormatParam(parts) ==
    IF Len(parts) = 3
    THEN <<" ", " ", "[">> \o parts[2] \o <<"]", " ">> \o parts[1] \o <<":", " ">>
             \o parts[3] \o <<"\n">>
    ELSE <<" ", " ">> \o JoinColon(parts) \o <<"\n">>

RECURSIVE FormatParamLines(_)
FormatParamLines(tokens) ==
    IF tokens = <<>> THEN <<>>
    ELSE FormatParam(Head(tokens)) \o FormatParamLines(Tail(tokens))

format_params(tokens) ==
    IF tokens = <<>> THEN NotFoundText ELSE FormatParamLines(tokens)

-----------------------------------------------------------------------------
(* src/src/core/query_processor.rs                                         *)

\* ProcessResult::default(); error <<>> is None, a non-empty sequence is
\* Some(message), the message given by its pieces
DefaultProcessResult ==
    [query |-> EmptyQueryResult, executions |-> <<>>, groups |-> <<>>,
     filled_sql |-> <<>>, formatted_sql |-> <<>>, formatted_params |-> <<>>,
     copied_to_clipboard |-> FALSE, error |-> <<>>]

\* ProcessResult::success
success(r) == r.error = <<>> /\ (r.query.sql # <<>> \/ r.executions # <<>>)

\* QueryResult::found
found(q) == q.sql # <<>>

\* GroupExecution that does not push an execution whose group exists
GroupExecution_DropRepeat(groups, exec) ==
    IF \E g \in 1..Len(groups) : groups[g].template_sql = exec.sql
    THEN groups
    ELSE Append(groups,
             [template_sql |-> exec.sql,
              formatted_template_sql |-> format_sql(exec.sql),
              executions |-> <<exec>>,
              is_expanded |-> FALSE, is_template_expanded |-> FALSE])

\* GroupExecution that never looks for an existing group
GroupExecution_AlwaysNew(groups, exec) ==
    Append(groups,
        [template_sql |-> exec.sql,
         formatted_template_sql |-> format_sql(exec.sql),
         executions |-> <<exec>>,
         is_expanded |-> FALSE, is_template_expanded |-> FALSE])

\* one iteration of the grouping loop (lines 82-100)
GroupExecution(groups, exec) ==
    LET hits == {g \in 1..Len(groups) : groups[g].template_sql = exec.sql}
    IN  IF hits # {}
        THEN LET g == CHOOSE g \in hits : \A h \in hits : g <= h
             IN  [groups EXCEPT ![g].executions = Append(@, exec)]
        ELSE Append(groups,
                 [template_sql |-> exec.sql,
                  formatted_template_sql |-> format_sql(exec.sql),
                  executions |-> <<exec>>,
                  is_expanded |-> FALSE, is_template_expanded |-> FALSE])

RECURSIVE GroupLoop(_, _, _)
\* the grouping loop over result.executions from index k on
GroupLoop(groups, executions, k) ==
    IF k > Len(executions) THEN groups
    ELSE GroupLoop(GroupExecution(groups, executions[k]), executions, k + 1)

\* get_filled_query (lines 176-187)
get_filled_query(q) ==
    IF q.sql = <<>> THEN <<>>
    ELSE IF q.params = <<>> THEN q.sql
    ELSE FilledOrTemplate(q.sql, q.params)

\* CopyCalls that does not look at auto_copy
CopyCalls_IgnoreAutoCopy(auto_copy, filled_sql) ==
    IF filled_sql # <<>> THEN <<filled_sql>> ELSE <<>>

\* the copy step (lines 116-118, 163-165): the texts passed to
\* clipboard::copy_to_clipboard by one call
CopyCalls(auto_copy, filled_sql) ==
    IF auto_copy /\ filled_sql # <<>> THEN <<filled_sql>> ELSE <<>>

\* process_query that sets no error when no execution is found
process_query_NoError(exists, lines, target_id, auto_copy, copied) ==
    LET executions == parse_log_file_advanced(exists, lines, target_id) IN
    IF executions = <<>>
    THEN DefaultProcessResult
    ELSE LET last_exec == executions[Len(executions)] IN
         [DefaultProcessResult EXCEPT
            !.executions = executions,
            !.groups = GroupLoop(<<>>, executions, 1),
            !.query = [id |-> last_exec.id, sql |-> last_exec.sql,
                       params |-> last_exec.params],
            !.formatted_sql = format_sql(last_exec.sql),
            !.formatted_params = format_params(last_exec.params),
            !.filled_sql = last_exec.filled_sql,
            !.copied_to_clipboard =
                 CopyCalls(auto_copy, last_exec.filled_sql) # <<>> /\ copied]

\* process_query with the representative view taken from the first execution
process_query_FirstExec(exists, lines, target_id, auto_copy, copied) ==
    LET executions == parse_log_file_advanced(exists, lines, target_id) IN
    IF executions = <<>>
    THEN [DefaultProcessResult EXCEPT !.error = <<"ID not found: ", target_id>>]
    ELSE LET last_exec == executions[1] IN
         [DefaultProcessResult EXCEPT
            !.executions = executions,
            !.groups = GroupLoop(<<>>, executions, 1),
            !.query = [id |-> last_exec.id, sql |-> last_exec.sql,
                       params |-> last_exec.params],
            !.formatted_sql = format_sql(last_exec.sql),
            !.formatted_params = format_params(last_exec.params),
            !.filled_sql = last_exec.filled_sql,
            !.copied_to_clipboard =
                 CopyCalls(auto_copy, last_exec.filled_sql) # <<>> /\ copied]

\* process_query; copied is what clipboard::copy_to_clipboard returns if called
process_query(exists, lines, target_id, auto_copy, copied) ==
    LET executions == parse_log_file_advanced(exists, lines, target_id) IN
    IF executions = <<>>
    THEN [DefaultProcessResult EXCEPT !.error = <<"ID not found: ", target_id>>]
    ELSE LET last_exec == executions[Len(executions)] IN
         [DefaultProcessResult EXCEPT
            !.executions = executions,
            !.groups = GroupLoop(<<>>, executions, 1),
            !.query = [id |-> last_exec.id, sql |-> last_exec.sql,
                       params |-> last_exec.params],
            !.formatted_sql = format_sql(last_exec.sql),
            !.formatted_params = format_params(last_exec.params),
            !.filled_sql = last_exec.filled_sql,
            !.copied_to_clipboard =
                 CopyCalls(auto_copy, last_exec.filled_sql) # <<>> /\ copied]

\* process_last_query that numbers its one execution 0
process_last_query_IndexZero(exists, lines, auto_copy, copied) ==
    LET q == get_last_query(exists, lines) IN
    IF ~found(q)
    THEN [DefaultProcessResult EXCEPT
            !.query = q, !.error = <<"No SQL queries found in log file">>]
    ELSE LET exec == [id |-> q.id, sql |-> q.sql, params |-> q.params,
                      filled_sql |-> get_filled_query(q),
                      formatted_sql |-> format_sql(q.sql),
                      execution_index |-> 0, timestamp |-> "Last Execution",
                      dao_file |-> "", is_expanded |-> FALSE]
         IN  [DefaultProcessResult EXCEPT
                !.query = q,
                !.formatted_sql = format_sql(q.sql),
                !.formatted_params = format_params(q.params),
                !.filled_sql = get_filled_query(q),
                !.executions = <<exec>>,
                !.groups = << [template_sql |-> exec.sql,
                               formatted_template_sql |-> exec.formatted_sql,
                               executions |-> <<exec>>,
                               is_expanded |-> FALSE,
                               is_template_expanded |-> FALSE] >>,
                !.copied_to_clipboard =
                     CopyCalls(auto_copy, get_filled_query(q)) # <<>> /\ copied]

\* process_last_query
process_last_query(exists, lines, auto_copy, copied) ==
    LET q == get_last_query(exists, lines) IN
    IF ~found(q)
    THEN [DefaultProcessResult EXCEPT
            !.query = q, !.error = <<"No SQL queries found in log file">>]
    ELSE LET exec == [id |-> q.id, sql |-> q.sql, params |-> q.params,
                      filled_sql |-> get_filled_query(q),
                      formatted_sql |-> format_sql(q.sql),
                      execution_index |-> 1, timestamp |-> "Last Execution",
                      dao_file |-> "", is_expanded |-> FALSE]
         IN  [DefaultProcessResult EXCEPT
                !.query = q,
                !.formatted_sql = format_sql(q.sql),
                !.formatted_params = format_params(q.params),
                !.filled_sql = get_filled_query(q),
                !.executions = <<exec>>,
                !.groups = << [template_sql |-> exec.sql,
                               formatted_template_sql |-> exec.formatted_sql,
                               executions |-> <<exec>>,
                               is_expanded |-> FALSE,
                               is_template_expanded |-> FALSE] >>,
                !.copied_to_clipboard =
                     CopyCalls(auto_copy, get_filled_query(q)) # <<>> /\ copied]

-----------------------------------------------------------------------------
(* src/src-tauri/src/core/log_parser.rs: the whole-file scanner variant    *)

TauriAdvInit ==
    [sql |-> <<>>, timestamp |-> "", dao_file |-> "", all_params_sets |-> <<>>]

\* the params part of the loop body (lines 189-203): every params line of
\* the id is collected with its timestamp
TauriAdvancedParams(st, line, target_id) ==
    IF ParamsMatches(line, target_id)
    THEN [st EXCEPT !.all_params_sets =
             Append(@, [params |-> parse_params_string(line),
                        ts |-> IF TimestampMatches(line) THEN line.ts ELSE st.timestamp])]
    ELSE st

\* one iteration of the loop over lines (lines 156-204)
TauriAdvancedLine(st, lines, k, target_id) ==
    IF FullLineMatches(lines[k], target_id)
    THEN [st EXCEPT !.timestamp = lines[k].ts,
                    !.sql = SqlCapture(lines[k].rest),
                    !.dao_file = find_dao_class_name(lines, k)]
    ELSE LET s1 == IF st.sql = <<>> /\ SimpleSqlMatches(lines[k], target_id)
                   THEN [st EXCEPT
                           !.sql = SqlCapture(lines[k].rest),
                           !.timestamp =
                               IF TimestampMatches(lines[k]) THEN lines[k].ts
                               ELSE IF k > 1 /\ TimestampMatches(lines[k - 1])
                                    THEN lines[k - 1].ts
                                    ELSE st.timestamp,
                           !.dao_file = find_dao_class_name(lines, k)]
                   ELSE st
         IN  TauriAdvancedParams(s1, lines[k], target_id)

RECURSIVE TauriAdvancedLoop(_, _, _, _)
TauriAdvancedLoop(st, lines, k, target_id) ==
    IF k > Len(lines) THEN st
    ELSE TauriAdvancedLoop(TauriAdvancedLine(st, lines, k, target_id),
                           lines, k + 1, target_id)

\* "Build executions" (lines 206-237)
TauriBuildExecutions(st, target_id) ==
    IF st.sql = <<>> THEN <<>>
    ELSE LET sql == Trim(st.sql) IN
         IF st.all_params_sets # <<>>
         THEN [index \in 1..Len(st.all_params_sets) |->
                 LET set == st.all_params_sets[index] IN
                 [id |-> target_id,
                  timestamp |-> IF set.ts = "" THEN st.timestamp ELSE set.ts,
                  dao_file |-> st.dao_file, sql |-> sql,
                  filled_sql |-> FilledOrTemplate(sql, set.params),
                  params |-> set.params, execution_index |-> index]]
         ELSE << [id |-> target_id, timestamp |-> st.timestamp,
                  dao_file |-> st.dao_file, sql |-> sql, filled_sql |-> sql,
                  params |-> <<>>, execution_index |-> 1] >>

TauriParseLogFileAdvanced(exists, lines, target_id) ==
    IF ~exists \/ lines = <<>> THEN <<>>
    ELSE TauriBuildExecutions(TauriAdvancedLoop(TauriAdvInit, lines, 1, target_id),
                              target_id)

RECURSIVE TauriEnrollLoop(_, _, _)
\* first pass of get_all_ids (lines 260-273): every SQL marker enrolls its id
TauriEnrollLoop(ids, lines, k) ==
    IF k > Len(lines) THEN ids
    ELSE TauriEnrollLoop(IF IdSqlMatches(lines[k]) THEN EnrollId(ids, lines[k].id) ELSE ids,
                         lines, k + 1)

RECURSIVE TauriCountLoop(_, _, _)
\* second pass of get_all_ids (lines 275-286): every params marker is counted
TauriCountLoop(ids, lines, k) ==
    IF k > Len(lines) THEN ids
    ELSE TauriCountLoop(IF IdParamsMatches(lines[k])
                        THEN BumpParamsCount(ids, lines[k].id) ELSE ids,
                        lines, k + 1)

TauriGetAllIds(exists, lines) ==
    IF ~exists \/ lines = <<>> THEN <<>>
    ELSE TauriCountLoop(TauriEnrollLoop(<<>>, lines, 1), lines, 1)

RECURSIVE TauriTrimmedLines(_)
\* content.trim_end().lines(): trailing whitespace-only lines are dropped
TauriTrimmedLines(lines) ==
    IF lines = <<>> THEN <<>>
    ELSE IF IsBlank(lines[Len(lines)])
         THEN TauriTrimmedLines(SubSeq(lines, 1, Len(lines) - 1))
         ELSE lines

RECURSIVE TauriLastSqlLoop(_, _, _)
\* the loop that tracks the last SQL statement (lines 340-365)
TauriLastSqlLoop(last, lines, k) ==
    IF k > Len(lines) THEN last
    ELSE TauriLastSqlLoop(
             IF ~IsBlank(lines[k]) /\ IdSqlMatches(lines[k]) /\ Trim(lines[k].rest) # <<>>
             THEN [id |-> lines[k].id, sql |-> Trim(lines[k].rest)]
             ELSE last,
             lines, k + 1)

\* "Find ALL params matches and take the last one" (lines 377-391)
TauriLastParams(lines, last_id) ==
    LET hits == {k \in 1..Len(lines) : ParamsMatches(lines[k], last_id)}
    IN  IF hits = {} THEN <<>>
        ELSE parse_params_string(lines[CHOOSE k \in hits : \A h \in hits : h <= k])

TauriGetLastQuery(exists, lines) ==
    IF ~exists \/ lines = <<>> \/ TauriTrimmedLines(lines) = <<>> THEN EmptyQueryResult
    ELSE LET trimmed == TauriTrimmedLines(lines)
             last == TauriLastSqlLoop([id |-> "", sql |-> <<>>], trimmed, 1)
         IN  IF last.id = "" \/ last.sql = <<>> THEN EmptyQueryResult
             ELSE [id |-> last.id, sql |-> last.sql,
                   params |-> TauriLastParams(trimmed, last.id)]

RECURSIVE BracketGroups(_)
\* the text "[tok][tok]..." of a token list
BracketGroups(toks) ==
    IF toks = <<>> THEN <<>>
    ELSE <<"[">> \o JoinColon(Head(toks)) \o <<"]">> \o BracketGroups(Tail(toks))

\* the text of a line as the whole-content patterns meet it; the pieces that
\* no capture splits (timestamp, marker, id) are single elements
LineText(line) ==
    LET lead == IF line.ts = "" THEN <<>>
                ELSE IF line.corr THEN <<line.ts, ",INFO,hint,">>
                ELSE <<line.ts, " ">>
    IN  IF line.mark = "sql"
        THEN lead \o <<"id=", line.id, " ", "sql=">> \o line.rest
        ELSE IF line.mark = "params"
        THEN lead \o <<"id=", line.id, " ", "params=">>
                  \o (IF line.toks # <<>> THEN BracketGroups(line.toks)
                      ELSE IF line.open THEN <<"[", "]">> ELSE <<>>)
        ELSE IF line.dao # "" THEN lead \o <<"Dao:", line.dao>>
        ELSE lead

\* sql_regex.captures(&content) started at the marker of line k (lines
\* 97-104): after "sql=", \s* runs over the rest of the line and, when that is
\* all whitespace, over the line break and the blank lines below, and (.+)
\* takes what is left of the line where it stops; with nothing but whitespace
\* up to the end of the content it backtracks to the last character of the
\* rest, and with an empty rest there is no match
TauriSqlCaptureAt(lines, k) ==
    LET rest == lines[k].rest
        below == {h \in (k + 1)..Len(lines) : TrimStart(LineText(lines[h])) # <<>>}
    IN  IF TrimStart(rest) # <<>> THEN [hit |-> TRUE, text |-> TrimStart(rest)]
        ELSE IF below # {}
        THEN [hit |-> TRUE,
              text |-> TrimStart(LineText(lines[CHOOSE h \in below :
                                                   \A g \in below : h <= g]))]
        ELSE IF rest # <<>> THEN [hit |-> TRUE, text |-> <<rest[Len(rest)]>>]
        ELSE [hit |-> FALSE, text |-> <<>>]

\* parse_log_file of the whole-file variant (lines 76-116): the first match of
\* each pattern in the content
TauriParseLogFile(exists, lines, target_id) ==
    IF ~exists \/ lines = <<>> THEN [id |-> target_id, sql |-> <<>>, params |-> <<>>]
    ELSE LET sqls == {k \in 1..Len(lines) :
                         /\ lines[k].mark = "sql" /\ lines[k].id = target_id
                         /\ TauriSqlCaptureAt(lines, k).hit}
             pars == {k \in 1..Len(lines) : ParamsMatches(lines[k], target_id)}
         IN  [id |-> target_id,
              sql |-> IF sqls = {} THEN <<>>
                      ELSE Trim(TauriSqlCaptureAt(lines,
                                   CHOOSE k \in sqls : \A h \in sqls : k <= h).text),
              params |-> IF pars = {} THEN <<>>
                         ELSE parse_params_string(lines[CHOOSE k \in pars :
                                                           \A h \in pars : k <= h])]

-----------------------------------------------------------------------------
(* The files the scanner is run on                                         *)

MaxLines == 3

Ids == {"a", "b"}

\* templates: "x?" has one placeholder, "y" has none
SqlX == <<"x", "?">>
SqlY == <<"y">>

\* tokens Int:1:7 and String:2:o'k
TokInt1 == << <<"I","n","t">>, <<"1">>, <<"7">> >>
TokStr2 == << <<"S","t","r","i","n","g">>, <<"2">>, <<"o","'","k">> >>

LogLines ==
    { BlankLine,
      NoteLine("T0", "UserDao"),
      SqlLine("T1", TRUE, "a", SqlX),
      SqlLine("T2", TRUE, "a", SqlY),
      SqlLine("", FALSE, "a", <<" ", "y">>),
      SqlLine("", FALSE, "a", <<" ">>),
      SqlLine("", FALSE, "a", <<>>),
      SqlLine("T1", TRUE, "b", SqlX),
      ParamsLine("T3", "a", TRUE, <<TokInt1>>),
      ParamsLine("", "a", TRUE, <<TokStr2>>),
      ParamsLine("", "a", TRUE, <<>>),
      ParamsLine("", "a", FALSE, <<>>),
      ParamsLine("T3", "b", TRUE, <<TokInt1>>) }

Files == UNION { [1..n -> LogLines] : n \in 0..MaxLines }

-----------------------------------------------------------------------------
(* One run: a file, and one call of one scanner entry point on it          *)

Init ==
    /\ fileExists \in BOOLEAN
    /\ file \in (IF fileExists THEN Files ELSE {<<>>})
    /\ pc = "idle"
    /\ op = ""
    /\ target = ""
    /\ i = 0
    /\ adv = AdvInit
    /\ result = <<>>
    /\ argQuery = <<>>
    /\ argParams = <<>>
    /\ autoCopy = FALSE
    /\ clipboard = <<>>
    /\ state = AppStateNew(DefaultEncoding)
    /\ commands = NoCommands

\* a call that runs to its return in one step
Call(name, target_id, value) ==
    /\ pc = "idle"
    /\ pc' = "done"
    /\ op' = name
    /\ target' = target_id
    /\ result' = value
    /\ UNCHANGED <<file, fileExists, i, adv, argQuery, argParams, autoCopy, clipboard, state, commands>>

\* parse_log_file_advanced, lines 143-176: the early returns, else enter the loop
FindAllExecutionsByIdOpen(target_id) ==
    /\ pc = "idle"
    /\ op' = "findAllExecutionsById"
    /\ target' = target_id
    /\ IF ~fileExists \/ file = <<>>
       THEN pc' = "done" /\ result' = <<>> /\ UNCHANGED <<i, adv>>
       ELSE pc' = "scan" /\ i' = 1 /\ adv' = AdvInit /\ UNCHANGED result
    /\ UNCHANGED <<file, fileExists, argQuery, argParams, autoCopy, clipboard, state, commands>>

\* parse_log_file_advanced, lines 178-254: one line of the loop
FindAllExecutionsByIdLine ==
    /\ pc = "scan"
    /\ i <= Len(file)
    /\ adv' = AdvancedLine(adv, file, i, target)
    /\ i' = i + 1
    /\ UNCHANGED <<file, fileExists, pc, op, target, result,
                   argQuery, argParams, autoCopy, clipboard, state, commands>>

\* parse_log_file_advanced, lines 267-279: the fallback and the return
FindAllExecutionsByIdReturn ==
    /\ pc = "scan"
    /\ i > Len(file)
    /\ result' = AdvancedFinish(adv, target)
    /\ pc' = "done"
    /\ UNCHANGED <<file, fileExists, op, target, i, adv,
                   argQuery, argParams, autoCopy, clipboard, state, commands>>

TauriFindAllExecutionsById(target_id) ==
    Call("tauriFindAllExecutionsById", target_id,
         TauriParseLogFileAdvanced(fileExists, file, target_id))

ListIds == Call("listIds", "", get_all_ids(fileExists, file))

TauriListIds == Call("tauriListIds", "", TauriGetAllIds(fileExists, file))

FindLastQuery == Call("findLastQuery", "", get_last_query(fileExists, file))

TauriFindLastQuery == Call("tauriFindLastQuery", "", TauriGetLastQuery(fileExists, file))

FindById(target_id) == Call("findById", target_id, parse_log_file(fileExists, file, target_id))

TauriFindById(target_id) ==
    Call("tauriFindById", target_id, TauriParseLogFile(fileExists, file, target_id))

Next ==
    \/ \E t \in Ids : FindAllExecutionsByIdOpen(t)
    \/ FindAllExecutionsByIdLine
    \/ FindAllExecutionsByIdReturn
    \/ \E t \in Ids : TauriFindAllExecutionsById(t)
    \/ ListIds
    \/ TauriListIds
    \/ FindLastQuery
    \/ TauriFindLastQuery
    \/ \E t \in Ids : FindById(t)
    \/ \E t \in Ids : TauriFindById(t)

Spec == Init /\ [][Next]_vars

-----------------------------------------------------------------------------
(* sql_formatter::replace_placeholders run on its own: a query and a list  *)
(* of raw tokens "TYPE:POSITION:VALUE", each a sequence of characters      *)

RECURSIVE SplitOnce(_, _)
\* <<text before the first ':', text after it>>, or <<s>> when s has no ':'
\* (k is the position examined)
SplitOnce(s, k) ==
    IF k > Len(s) THEN <<s>>
    ELSE IF s[k] = ":" THEN <<SubSeq(s, 1, k - 1), SubSeq(s, k + 1, Len(s))>>
    ELSE SplitOnce(s, k + 1)

\* param.splitn(3, ':').collect(): at most three parts, the third keeps
\* every further ':'
Splitn3(param) ==
    LET first == SplitOnce(param, 1)
    IN  IF Len(first) = 1 THEN first
        ELSE <<first[1]>> \o SplitOnce(first[2], 1)

\* the parts of every token of a list
SplitParams(tokens) == [k \in 1..Len(tokens) |-> Splitn3(tokens[k])]

\* the wire form TYPE:POSITION:VALUE
Token(type, position, value) == type \o <<":">> \o position \o <<":">> \o value

TypeNames ==
    { <<"S","t","r","i","n","g">>, <<"S","T","R","I","N","G">>,
      <<"T","i","m","e","s","t","a","m","p">>, <<"D","a","t","e">>,
      <<"B","o","o","l","e","a","n">>, <<"B","i","g","D","e","c","i","m","a","l">>,
      <<"N","u","m","b","e","r">>, <<"I","n","t">>, <<"L","o","n","g">>,
      <<"F","l","o","a","t">>, <<"D","o","u","b","l","e">>, <<"X","m","l">> }

ValueTexts ==
    { <<"n","u","l","l">>, <<"N","U","L","L">>, <<"7">>, <<"1",".","5">>,
      <<"o","'","k">>, <<"a",":","b">>, <<"t","r","u","e">>, <<"½">>, <<>> }

PositionTexts == { <<"1">>, <<"x">> }

\* every type with every value, at a position that parses and one that does not
AllTokens ==
    { Token(t, p, v) : t \in TypeNames, p \in PositionTexts, v \in ValueTexts }

\* the tokens that lists of several tokens are made of: positions 1, 2, 3,
\* duplicates of position 1 (one written 01), null values, a POSITION that
\* is not an integer, and tokens with fewer than three parts
CoreTokens ==
    { Token(<<"I","n","t">>, <<"1">>, <<"7">>),
      Token(<<"I","n","t">>, <<"2">>, <<"8">>),
      Token(<<"I","n","t">>, <<"3">>, <<"5">>),
      Token(<<"S","t","r","i","n","g">>, <<"1">>, <<"o","'","k">>),
      Token(<<"S","t","r","i","n","g">>, <<"2">>, <<"n","u","l","l">>),
      Token(<<"I","n","t">>, <<"1">>, <<"n","u","l","l">>),
      Token(<<"I","n","t">>, <<"0","1">>, <<"6">>),
      Token(<<"I","n","t">>, <<"x">>, <<"9">>),
      Token(<<"I","n","t">>, <<"1">>, <<"?">>),
      Token(<<"S","t","r","i","n","g">>, <<"2">>, <<"?", "?">>),
      <<"I","n","t",":","1">>,
      <<"j","u","n","k">> }

MaxTokens == 2
MaxQueryLen == 3

QueryChars == {"a", "?"}

Queries == UNION { [1..n -> QueryChars] : n \in 0..MaxQueryLen }

TokenLists ==
    UNION { [1..n -> CoreTokens] : n \in 0..MaxTokens } \cup { <<t>> : t \in AllTokens }

SubstInit ==
    /\ argQuery \in Queries
    /\ argParams \in TokenLists
    /\ pc = "idle"
    /\ op = ""
    /\ target = ""
    /\ fileExists = FALSE
    /\ file = <<>>
    /\ i = 0
    /\ adv = AdvInit
    /\ result = <<>>
    /\ autoCopy = FALSE
    /\ clipboard = <<>>
    /\ state = AppStateNew(DefaultEncoding)
    /\ commands = NoCommands

\* one call of replace_placeholders(query, params)
Substitute ==
    /\ pc = "idle"
    /\ pc' = "done"
    /\ op' = "substitute"
    /\ result' = replace_placeholders(argQuery, SplitParams(argParams))
    /\ UNCHANGED <<file, fileExists, target, i, adv, argQuery, argParams,
                   autoCopy, clipboard, state, commands>>

SubstNext == Substitute

SubstSpec == SubstInit /\ [][SubstNext]_vars

-----------------------------------------------------------------------------
(* The processor run on its own: a file, and one call of process_query or  *)
(* process_last_query on it                                                *)

\* two templates of id a that differ by a trailing space only, a params line
\* that fills the placeholder and one whose token list is empty
ProcLines ==
    { SqlLine("T1", TRUE, "a", <<"y", "?">>),
      SqlLine("", FALSE, "a", <<"y", "?", " ">>),
      ParamsLine("T3", "a", TRUE, <<TokInt1>>),
      ParamsLine("", "a", TRUE, <<>>) }

MaxProcLines == 6

\* token Int:2:8, which leaves position 1 without a value
TokInt2 == << <<"I","n","t">>, <<"2">>, <<"8">> >>

\* the lines of the short files: the above and a params line whose token does
\* not fill the placeholder
ShortProcLines == ProcLines \cup { ParamsLine("T4", "a", TRUE, <<TokInt2>>) }

MaxShortLines == 3

ProcFiles ==
    UNION ( { [1..n -> ProcLines] : n \in 0..MaxProcLines }
            \cup { [1..n -> ShortProcLines] : n \in 0..MaxShortLines } )

ProcInit ==
    /\ fileExists \in BOOLEAN
    /\ file \in (IF fileExists THEN ProcFiles ELSE {<<>>})
    /\ pc = "idle"
    /\ op = ""
    /\ target = ""
    /\ i = 0
    /\ adv = AdvInit
    /\ result = <<>>
    /\ argQuery = <<>>
    /\ argParams = <<>>
    /\ autoCopy = FALSE
    /\ clipboard = <<>>
    /\ state = AppStateNew(DefaultEncoding)
    /\ commands = NoCommands

\* the calls of clipboard::copy_to_clipboard after one more call of the
\* processor, each with the outcome copied
ClipboardAfter(texts, copied) ==
    clipboard \o [k \in 1..Len(texts) |-> [text |-> texts[k], ok |-> copied]]

ProcessQuery(target_id, auto_copy, copied) ==
    /\ pc = "idle"
    /\ pc' = "done"
    /\ op' = "processQuery"
    /\ target' = target_id
    /\ autoCopy' = auto_copy
    /\ result' = process_query(fileExists, file, target_id, auto_copy, copied)
    /\ clipboard' = ClipboardAfter(
            IF result'.error = <<>> THEN CopyCalls(auto_copy, result'.filled_sql) ELSE <<>>, copied)
    /\ UNCHANGED <<file, fileExists, i, adv, argQuery, argParams, state, commands>>

ProcessLastQuery(auto_copy, copied) ==
    /\ pc = "idle"
    /\ pc' = "done"
    /\ op' = "processLastQuery"
    /\ target' = ""
    /\ autoCopy' = auto_copy
    /\ result' = process_last_query(fileExists, file, auto_copy, copied)
    /\ clipboard' = ClipboardAfter(
            IF result'.error = <<>> THEN CopyCalls(auto_copy, result'.filled_sql) ELSE <<>>, copied)
    /\ UNCHANGED <<file, fileExists, i, adv, argQuery, argParams, state, commands>>

ProcNext ==
    \/ \E t \in Ids, a \in BOOLEAN, c \in BOOLEAN : ProcessQuery(t, a, c)
    \/ \E a \in BOOLEAN, c \in BOOLEAN : ProcessLastQuery(a, c)

ProcSpec == ProcInit /\ [][ProcNext]_vars

-----------------------------------------------------------------------------
(* find_dao_class_name run on its own: a file long enough for the window   *)
(* to end inside it, and one call for the index of its SQL line            *)

MaxDaoLines == 52

\* a file of n lines with a SQL line at s, the marker of UserDao at d1 and
\* the marker of ItemDao at d2 (0: no such line), and the marker of OldDao on
\* the lines above the SQL line if above
DaoFile(n, s, d1, d2, above) ==
    [k \in 1..n |->
        IF k = s THEN SqlLine("T1", TRUE, "a", SqlY)
        ELSE IF k = d1 THEN NoteLine("T0", "UserDao")
        ELSE IF k = d2 THEN NoteLine("T0", "ItemDao")
        ELSE IF k < s /\ above THEN NoteLine("T0", "OldDao")
        ELSE BlankLine]

\* the SQL line is the first or the second line; the second marker, if any,
\* is right below the first or on the last line
DaoFiles ==
    { DaoFile(n, s, d[1], d[2], above) :
        n \in 0..MaxDaoLines, s \in {1, 2}, above \in BOOLEAN,
        d \in { e \in (0..MaxDaoLines) \X (0..MaxDaoLines) :
                  e[2] = 0 \/ (e[1] > 0 /\ e[2] = e[1] + 1) \/ e[2] = MaxDaoLines } }

DaoInit ==
    /\ fileExists = TRUE
    /\ file \in DaoFiles
    /\ pc = "idle"
    /\ op = ""
    /\ target = ""
    /\ i = 0
    /\ adv = AdvInit
    /\ result = <<>>
    /\ argQuery = <<>>
    /\ argParams = <<>>
    /\ autoCopy = FALSE
    /\ clipboard = <<>>
    /\ state = AppStateNew(DefaultEncoding)
    /\ commands = NoCommands

\* the call made for a SQL line of the target id (log_parser.rs:189, :208)
FindDaoClassName(k) ==
    /\ pc = "idle"
    /\ SimpleSqlMatches(file[k], "a")
    /\ pc' = "done"
    /\ op' = "findDaoClassName"
    /\ target' = "a"
    /\ i' = k
    /\ result' = find_dao_class_name(file, k)
    /\ UNCHANGED <<file, fileExists, adv, argQuery, argParams, autoCopy, clipboard, state, commands>>

DaoNext == \E k \in 1..Len(file) : FindDaoClassName(k)

DaoSpec == DaoInit /\ [][DaoNext]_vars

-----------------------------------------------------------------------------
(* src/src-tauri/src/commands.rs: the commands run concurrently on one     *)
(* AppState.  A thread runs one command; a step is one lock(), one         *)
(* statement on the guarded data, or the return that drops the guards.     *)

\* commands that lock connection_manager and nothing else (lines 52-83, 99-115)
ConnectionCommands ==
    {"list_connections", "add_connection", "update_connection",
     "delete_connection", "execute_query"}

\* commands that take an encoding argument
EncodingCommands == {"get_all_ids", "process_query", "process_last_query", "save_config"}

CommandNames ==
    EncodingCommands \cup ConnectionCommands \cup {"load_config", "test_connection"}

Free(m) == state[m].holder = 0

\* thread t moves to pc label
At(t, label) == [commands EXCEPT ![t].pc = label]

CmdFrame ==
    UNCHANGED <<file, fileExists, pc, op, target, i, adv, result,
                argQuery, argParams, autoCopy, clipboard>>

CmdInit ==
    /\ fileExists = FALSE
    /\ file = <<>>
    /\ pc = "idle"
    /\ op = ""
    /\ target = ""
    /\ i = 0
    /\ adv = AdvInit
    /\ result = <<>>
    /\ argQuery = <<>>
    /\ argParams = <<>>
    /\ autoCopy = FALSE
    /\ clipboard = <<>>
    /\ state \in {AppStateNew(e) : e \in Encodings}
    /\ commands = NoCommands

\* the frontend invokes a command; the thread stands before its first statement
Invoke(t, name, encoding) ==
    /\ commands[t].pc = "idle"
    /\ commands' = [commands EXCEPT
                      ![t] = [cmd |-> name, encoding |-> encoding,
                              pc |-> "start", used |-> ""]]
    /\ UNCHANGED state
    /\ CmdFrame

\* get_all_ids (lines 15-23): a parser of its own, no lock; test_connection
\* (lines 85-97): no lock
WithoutLock(t) ==
    /\ commands[t].pc = "start"
    /\ commands[t].cmd \in {"get_all_ids", "test_connection"}
    /\ commands' = [commands EXCEPT ![t] = Finished]
    /\ UNCHANGED state
    /\ CmdFrame

\* process_query / process_last_query, line 33 / 45: query_processor.lock()
ProcessQueryLock(t) ==
    /\ commands[t].pc = "start"
    /\ commands[t].cmd \in {"process_query", "process_last_query"}
    /\ Free("query_processor")
    /\ state' = [state EXCEPT !.query_processor.holder = t]
    /\ commands' = At(t, "locked")
    /\ CmdFrame

\* line 34 / 46: processor.parser_mut().set_encoding(encoding)
ProcessQuerySetEncoding(t) ==
    /\ commands[t].pc = "locked"
    /\ commands[t].cmd \in {"process_query", "process_last_query"}
    /\ state' = [state EXCEPT !.query_processor.encoding = commands[t].encoding]
    /\ commands' = At(t, "set")
    /\ CmdFrame

\* line 35 / 47: the scan reads the file with the parser's encoding
ProcessQueryScan(t) ==
    /\ commands[t].pc = "set"
    /\ commands' = [commands EXCEPT ![t].pc = "scanned",
                                    ![t].used = state.query_processor.encoding]
    /\ UNCHANGED state
    /\ CmdFrame

\* line 36 / 48: the guard is dropped at the return
ProcessQueryReturn(t) ==
    /\ commands[t].pc = "scanned"
    /\ state' = [state EXCEPT !.query_processor.holder = 0]
    /\ commands' = [commands EXCEPT ![t] = Finished]
    /\ CmdFrame

\* the connection commands: connection_manager.lock()
ConnectionLock(t) ==
    /\ commands[t].pc = "start"
    /\ commands[t].cmd \in ConnectionCommands
    /\ Free("connection_manager")
    /\ state' = [state EXCEPT !.connection_manager.holder = t]
    /\ commands' = At(t, "connections")
    /\ CmdFrame

\* the guard is dropped at the return, in execute_query at the end of the
\* block (line 108), before the query is awaited
ConnectionRelease(t) ==
    /\ commands[t].pc = "connections"
    /\ state' = [state EXCEPT !.connection_manager.holder = 0]
    /\ commands' = IF commands[t].cmd = "execute_query" THEN At(t, "await")
                   ELSE [commands EXCEPT ![t] = Finished]
    /\ CmdFrame

\* execute_query, lines 110-114: the awaited query, no guard held
ExecuteQueryAwait(t) ==
    /\ commands[t].pc = "await"
    /\ commands' = [commands EXCEPT ![t] = Finished]
    /\ UNCHANGED state
    /\ CmdFrame

\* load_config, line 124: config.lock()
LoadConfigLock(t) ==
    /\ commands[t].pc = "start"
    /\ commands[t].cmd = "load_config"
    /\ Free("config")
    /\ state' = [state EXCEPT !.config.holder = t]
    /\ commands' = At(t, "loaded")
    /\ CmdFrame

\* load_config, lines 125-126
LoadConfigReturn(t) ==
    /\ commands[t].pc = "loaded"
    /\ state' = [state EXCEPT !.config.holder = 0]
    /\ commands' = [commands EXCEPT ![t] = Finished]
    /\ CmdFrame

\* save_config, line 133: config_manager.lock()
SaveConfigLockManager(t) ==
    /\ commands[t].pc = "start"
    /\ commands[t].cmd = "save_config"
    /\ Free("config_manager")
    /\ state' = [state EXCEPT !.config_manager.holder = t]
    /\ commands' = At(t, "manager")
    /\ CmdFrame

\* save_config, line 137: config.lock() inside the block
SaveConfigLockCurrent(t) ==
    /\ commands[t].pc = "manager"
    /\ Free("config")
    /\ state' = [state EXCEPT !.config.holder = t]
    /\ commands' = At(t, "current")
    /\ CmdFrame

\* save_config, line 138: the comparison; with equal encodings the block ends
\* and current is dropped (line 144)
SaveConfigCompare(t) ==
    /\ commands[t].pc = "current"
    /\ IF state.config.encoding # commands[t].encoding
       THEN /\ commands' = At(t, "changed")
            /\ UNCHANGED state
       ELSE /\ commands' = At(t, "block_end")
            /\ state' = [state EXCEPT !.config.holder = 0]
    /\ CmdFrame

\* SaveConfigLockProcessor that does not wait for the mutex
SaveConfigLockProcessor_NoWait(t) ==
    /\ commands[t].pc = "changed"
    /\ state' = [state EXCEPT !.query_processor.holder = t]
    /\ commands' = [commands EXCEPT ![t].pc = "processor"]
    /\ UNCHANGED <<file, fileExists, pc, op, target, i, adv, result,
                   argQuery, argParams, autoCopy, clipboard>>

\* save_config, line 139: query_processor.lock(), config_manager and config held
SaveConfigLockProcessor(t) ==
    /\ commands[t].pc = "changed"
    /\ Free("query_processor")
    /\ state' = [state EXCEPT !.query_processor.holder = t]
    /\ commands' = At(t, "processor")
    /\ CmdFrame

\* SaveConfigSetEncoding that leaves the block without dropping current
SaveConfigSetEncoding_KeepCurrent(t) ==
    /\ commands[t].pc = "processor"
    /\ state' = [state EXCEPT !.query_processor.encoding = commands[t].encoding,
                              !.query_processor.holder = 0]
    /\ commands' = [commands EXCEPT ![t].pc = "block_end"]
    /\ UNCHANGED <<file, fileExists, pc, op, target, i, adv, result,
                   argQuery, argParams, autoCopy, clipboard>>

\* save_config, lines 140-144: set_encoding, then processor and current are
\* dropped at the ends of their blocks
SaveConfigSetEncoding(t) ==
    /\ commands[t].pc = "processor"
    /\ state' = [state EXCEPT !.query_processor.encoding = commands[t].encoding,
                              !.query_processor.holder = 0,
                              !.config.holder = 0]
    /\ commands' = At(t, "block_end")
    /\ CmdFrame

\* save_config, line 146: config.lock() again, config_manager held
SaveConfigLockConfig(t) ==
    /\ commands[t].pc = "block_end"
    /\ Free("config")
    /\ state' = [state EXCEPT !.config.holder = t]
    /\ commands' = At(t, "config")
    /\ CmdFrame

\* save_config, lines 147-149: the configuration is replaced and saved, and
\* both guards are dropped at the return
SaveConfigStore(t) ==
    /\ commands[t].pc = "config"
    /\ state' = [state EXCEPT !.config.encoding = commands[t].encoding,
                              !.config.holder = 0,
                              !.config_manager.holder = 0]
    /\ commands' = [commands EXCEPT ![t] = Finished]
    /\ CmdFrame

\* one step of the command of thread t
CommandStep(t) ==
    \/ WithoutLock(t)
    \/ ProcessQueryLock(t)
    \/ ProcessQuerySetEncoding(t)
    \/ ProcessQueryScan(t)
    \/ ProcessQueryReturn(t)
    \/ ConnectionLock(t)
    \/ ConnectionRelease(t)
    \/ ExecuteQueryAwait(t)
    \/ LoadConfigLock(t)
    \/ LoadConfigReturn(t)
    \/ SaveConfigLockManager(t)
    \/ SaveConfigLockCurrent(t)
    \/ SaveConfigCompare(t)
    \/ SaveConfigLockProcessor(t)
    \/ SaveConfigSetEncoding(t)
    \/ SaveConfigLockConfig(t)
    \/ SaveConfigStore(t)

CmdNext ==
    \/ \E t \in Threads, name \in CommandNames :
          \E e \in (IF name \in EncodingCommands THEN Encodings ELSE {""}) :
              Invoke(t, name, e)
    \/ \E t \in Threads : CommandStep(t)

CmdSpec == CmdInit /\ [][CmdNext]_vars

\* a thread that can take a step is scheduled in the end
CmdFairSpec == CmdSpec /\ \A t \in Threads : WF_vars(CommandStep(t))

-----------------------------------------------------------------------------
(* Vocabulary of the properties                                            *)

Done(name) == pc = "done" /\ op = name

\* a sql event for the id, as the per-id scans see it: id=<id> sql=<text>
SqlEvents(lines, id) == {k \in 1..Len(lines) : SimpleSqlMatches(lines[k], id)}

\* a params line for the id, as the per-id scans see it: id=<id> params=[...
ParamsEvents(lines, id) == {k \in 1..Len(lines) : ParamsMatches(lines[k], id)}

MinOf(S) == CHOOSE k \in S : \A h \in S : k <= h
MaxOf(S) == CHOOSE k \in S : \A h \in S : h <= k

\* the elements of a set of line numbers in increasing order
RECURSIVE Ascending(_)
Ascending(S) == IF S = {} THEN <<>> ELSE <<MinOf(S)>> \o Ascending(S \ {MinOf(S)})

\* the params lines of the id that lie below some sql event of the id
ParamsAfterTemplate(lines, id) ==
    {k \in ParamsEvents(lines, id) : \E j \in SqlEvents(lines, id) : j < k}

\* the sql event of the id nearest above line k
TemplateAbove(lines, id, k) == MaxOf({j \in SqlEvents(lines, id) : j < k})

-----------------------------------------------------------------------------
\* C1: the list returned by findAllExecutionsById carries execution_index
\* 1, 2, ..., N in list order (1-based, step 1, no gap, no repeat), in both
\* scanner variants; during the streamed scan the counter equals the number
\* of executions appended so far.
C1_ExecutionIndexGapless ==
    /\ (Done("findAllExecutionsById") \/ Done("tauriFindAllExecutionsById"))
          => \A k \in 1..Len(result) : result[k].execution_index = k
    /\ pc = "scan"
          => /\ adv.execution_count = Len(adv.executions)
             /\ \A k \in 1..Len(adv.executions) : adv.executions[k].execution_index = k

C1_Witness ==
    /\ Done("findAllExecutionsById")
    /\ Len(result) = 2
    /\ result[2].execution_index = 2

-----------------------------------------------------------------------------
\* the SQL text the per-id scans capture from the sql event at line k
SqlTextAt(lines, k) == SqlCapture(lines[k].rest)

\* the correlated-form sql events of the id
FullSqlEvents(lines, id) == {k \in 1..Len(lines) : FullLineMatches(lines[k], id)}

\* the one template of the whole-file variant: the last correlated-form sql
\* event of the id, else the first sql event of the id
TauriTemplateLine(lines, id) ==
    IF FullSqlEvents(lines, id) # {} THEN MaxOf(FullSqlEvents(lines, id))
    ELSE MinOf(SqlEvents(lines, id))

-----------------------------------------------------------------------------
\* every sql event of the id carries SQL text that is not blank
SqlTextsNonBlank(lines, id) ==
    \A j \in SqlEvents(lines, id) : Trim(SqlTextAt(lines, j)) # <<>>

\* C3: in findAllExecutionsById the Executions built from params lines are
\* exactly the params lines of the target id that lie below a sql event of
\* the id, one Execution per line, in line order, each carrying that line's
\* decoded tokens; a params line above every sql event of the id appends
\* nothing (when no params line lies below a sql event the result is empty
\* or the single fallback Execution with empty params).  Stated for files
\* whose sql events of the target id all carry non-blank text.
C3_ParamsAppendOnlyAfterTemplate ==
    (/\ Done("findAllExecutionsById") \/ Done("tauriFindAllExecutionsById")
     /\ SqlTextsNonBlank(file, target)) =>
        LET lines == Ascending(ParamsAfterTemplate(file, target))
        IN  IF lines # <<>>
            THEN /\ Len(result) = Len(lines)
                 /\ \A k \in 1..Len(result) :
                        result[k].params = parse_params_string(file[lines[k]])
            ELSE /\ Len(result) <= 1
                 /\ \A k \in 1..Len(result) : result[k].params = <<>>

\* the same statement for the line-streamed scan alone, with its step form:
\* reading a line appends one Execution when the line is a params line of
\* the target id and a template is known, and nothing otherwise
C3_StreamedAppendOnlyAfterTemplate ==
    /\ Done("findAllExecutionsById") => C3_ParamsAppendOnlyAfterTemplate
    /\ pc = "scan" =>
          LET seen == Ascending({k \in ParamsAfterTemplate(file, target) : k < i})
          IN  /\ Len(adv.executions) = Len(seen)
              /\ \A k \in 1..Len(seen) :
                    adv.executions[k].params = parse_params_string(file[seen[k]])

\* the whole-file scan returning an Execution for a params line that lies
\* above the only sql event of the target id
C3_Witness ==
    /\ Done("tauriFindAllExecutionsById")
    /\ Len(file) = 2
    /\ ParamsEvents(file, target) = {1}
    /\ SqlEvents(file, target) = {2}
    /\ Len(result) = 1
    /\ result[1].params = parse_params_string(file[1])
    /\ result[1].params # <<>>

-----------------------------------------------------------------------------
\* C4: when the file has a sql event for the target id and no params line
\* of the id below a sql event of the id, findAllExecutionsById returns
\* exactly one Execution, with empty params, filled_sql = sql and
\* execution_index 1.
C4_TemplateWithoutParams ==
    (/\ Done("findAllExecutionsById") \/ Done("tauriFindAllExecutionsById")
     /\ SqlEvents(file, target) # {}
     /\ ParamsAfterTemplate(file, target) = {})
    => /\ Len(result) = 1
       /\ result[1].params = <<>>
       /\ result[1].filled_sql = result[1].sql
       /\ result[1].execution_index = 1

\* the same statement for the line-streamed scan alone
C4_StreamedTemplateWithoutParams ==
    Done("findAllExecutionsById") => C4_TemplateWithoutParams

\* the whole-file scan on a file whose only params line of the target id
\* lies above its only sql event: the one Execution carries those params
C4_Witness ==
    /\ Done("tauriFindAllExecutionsById")
    /\ SqlEvents(file, target) # {}
    /\ ParamsAfterTemplate(file, target) = {}
    /\ Len(result) = 1
    /\ result[1].params # <<>>
    /\ result[1].filled_sql # result[1].sql

-----------------------------------------------------------------------------
\* the SQL line findLastQuery selects: the last line that carries the sql
\* marker with SQL text that is not blank (0 when there is none)
LastSqlLine(lines) ==
    LET ev == {k \in 1..Len(lines) :
                   IdSqlMatches(lines[k]) /\ Trim(lines[k].rest) # <<>>}
    IN  IF ev = {} THEN 0 ELSE MaxOf(ev)

\* every line with the params marker carries a bracketed token list
ParamsBracketed(lines) ==
    \A k \in 1..Len(lines) : IdParamsMatches(lines[k]) => lines[k].open

-----------------------------------------------------------------------------
\* C6: findLastQuery returns the id and the SQL text of the sql event at the
\* greatest line position of the file (a sql event being a line with the sql
\* marker and SQL text that is not blank), whatever precedes it and whatever
\* blank lines follow it, in both scanner variants; without any sql event id
\* and sql are empty.
C6_LastSqlEventSelected ==
    (Done("findLastQuery") \/ Done("tauriFindLastQuery")) =>
        LET sel == LastSqlLine(file)
        IN  IF sel = 0 THEN result.id = "" /\ result.sql = <<>>
            ELSE /\ result.id = file[sel].id
                 /\ result.sql = Trim(file[sel].rest)

\* sql events of two different ids followed by a blank line: the second id
\* and its text are returned
C6_Witness ==
    /\ Done("findLastQuery")
    /\ Len(file) = 3
    /\ IdSqlMatches(file[1]) /\ IdSqlMatches(file[2]) /\ IsBlank(file[3])
    /\ Trim(file[1].rest) # <<>>
    /\ file[1].id # file[2].id
    /\ LastSqlLine(file) = 2
    /\ result.id = file[2].id
    /\ result.sql = Trim(file[2].rest)

-----------------------------------------------------------------------------
\* C7: on every file the streamed findLastQuery returns the QueryResult
\* (id, sql, params) that the whole-file findLastQuery returns on the same
\* file.
C7_VariantsAgree ==
    Done("findLastQuery") => result = TauriGetLastQuery(fileExists, file)

\* the two variants run on a file whose params line of the selected id lies
\* above the selected SQL line: the streamed result has no params, the
\* whole-file result has that line's tokens
C7_Witness ==
    /\ Done("findLastQuery")
    /\ Len(file) = 2
    /\ ParamsEvents(file, result.id) = {1}
    /\ LastSqlLine(file) = 2
    /\ result.params = <<>>
    /\ TauriGetLastQuery(fileExists, file).id = result.id
    /\ TauriGetLastQuery(fileExists, file).sql = result.sql
    /\ TauriGetLastQuery(fileExists, file).params = parse_params_string(file[1])
    /\ parse_params_string(file[1]) # <<>>

-----------------------------------------------------------------------------
\* the lines that carry the sql marker, whatever follows it
SqlMarkerLines(lines) == {k \in 1..Len(lines) : IdSqlMatches(lines[k])}

\* the file is missing or unreadable, empty, or made of blank lines only
NothingToRead ==
    ~fileExists \/ file = <<>> \/ \A k \in 1..Len(file) : IsBlank(file[k])

-----------------------------------------------------------------------------
\* C9: every IdInfo returned by listIds has has_sql = TRUE and its id is the
\* id of a line that carries the sql marker: an id met only on params lines
\* is never listed (both scanner variants).
C9_NoParamsOnlyId ==
    (Done("listIds") \/ Done("tauriListIds")) =>
        \A k \in 1..Len(result) :
            /\ result[k].has_sql
            /\ \E j \in SqlMarkerLines(file) : file[j].id = result[k].id

\* listIds on a file with a sql event of one id and a params line of another
\* id that has no sql event: the first is listed, the second is not
C9_Witness ==
    /\ Done("listIds")
    /\ \E j \in 1..Len(file) :
          /\ IdParamsMatches(file[j])
          /\ \A h \in SqlMarkerLines(file) : file[h].id # file[j].id
          /\ \A k \in 1..Len(result) : result[k].id # file[j].id
    /\ Len(result) = 1

-----------------------------------------------------------------------------
\* the first line that carries the sql marker of the id
FirstSqlLine(lines, id) == MinOf({k \in SqlMarkerLines(lines) : lines[k].id = id})

\* the lines below line first that carry the params marker of the id
ParamsLinesBelow(lines, id, first) ==
    {k \in 1..Len(lines) : k > first /\ IdParamsMatches(lines[k]) /\ lines[k].id = id}

\* C10: listIds lists exactly the ids that have a sql event, each once, in
\* the order of their first sql event, and params_count of an id is the
\* number of params events of the id below its first sql event (params
\* events above it are not counted).
C10_ListIdsCountsAfterEnrollment ==
    (Done("listIds") \/ Done("tauriListIds")) =>
        /\ \A j, k \in 1..Len(result) : j # k => result[j].id # result[k].id
        /\ {result[k].id : k \in 1..Len(result)}
              = {file[j].id : j \in SqlMarkerLines(file)}
        /\ \A j, k \in 1..Len(result) :
              j < k => FirstSqlLine(file, result[j].id) < FirstSqlLine(file, result[k].id)
        /\ \A k \in 1..Len(result) :
              result[k].params_count =
                  Cardinality(ParamsLinesBelow(file, result[k].id,
                                               FirstSqlLine(file, result[k].id)))

\* the same statement for the line-streamed scan alone
C10_StreamedListIds ==
    Done("listIds") => C10_ListIdsCountsAfterEnrollment

\* the whole-file listIds on a file whose params line of an id lies above
\* the only sql event of that id: the params line is counted
C10_Witness ==
    /\ Done("tauriListIds")
    /\ Len(file) = 2
    /\ IdParamsMatches(file[1]) /\ IdSqlMatches(file[2])
    /\ file[1].id = file[2].id
    /\ Len(result) = 1
    /\ result[1].params_count = 1

-----------------------------------------------------------------------------
(* Vocabulary of the substitute properties                                 *)

\* the tokens of the list that have three parts
ThreePart(tokens) == {j \in 1..Len(tokens) : Len(Splitn3(tokens[j])) = 3}

\* the three-part tokens whose POSITION is not an integer
BadPosition(tokens) ==
    {j \in ThreePart(tokens) : ~ParseI32(Splitn3(tokens[j])[2]).ok}

\* the tokens that declare position k
Declares(tokens, k) ==
    {j \in ThreePart(tokens) \ BadPosition(tokens) :
        ParseI32(Splitn3(tokens[j])[2]).val = k}

\* the literal of token j: its VALUE formatted by its TYPE
LiteralOf(tokens, j) ==
    ParsedValue(ToLowercase(Splitn3(tokens[j])[1]), Splitn3(tokens[j])[3])

\* the number of "?" among the first j characters of the query
Rank(q, j) == Cardinality({h \in 1..j : q[h] = "?"})

RECURSIVE Flatten(_)
\* the concatenation of a sequence of texts
Flatten(texts) == IF texts = <<>> THEN <<>> ELSE Head(texts) \o Flatten(Tail(texts))

\* no two tokens declare the same position
PositionsDistinct(tokens) ==
    \A j, h \in ThreePart(tokens) \ BadPosition(tokens) :
        j # h => ParseI32(Splitn3(tokens[j])[2]).val # ParseI32(Splitn3(tokens[h])[2]).val

\* the list in another order
Permuted(tokens, p) == [k \in 1..Len(tokens) |-> tokens[p[k]]]

\* C11: when substitute succeeds, every character of the template that is
\* not "?" is copied in place and the k-th "?" (k = 1, 2, ... in order of
\* appearance) is replaced by the literal of the token that declares
\* POSITION k; when no two tokens declare the same position, listing the
\* tokens in any other order gives the same outcome.
C11_PositionalSubstitution ==
    Done("substitute") =>
        /\ result.ok =>
              /\ \A j \in 1..Len(argQuery) :
                    argQuery[j] = "?" => Declares(argParams, Rank(argQuery, j)) # {}
              /\ result.sql =
                    Flatten([j \in 1..Len(argQuery) |->
                        IF argQuery[j] = "?"
                        THEN LiteralOf(argParams,
                                       MaxOf(Declares(argParams, Rank(argQuery, j))))
                        ELSE <<argQuery[j]>>])
        /\ PositionsDistinct(argParams) =>
              \A p \in Permutations(1..Len(argParams)) :
                  replace_placeholders(argQuery, SplitParams(Permuted(argParams, p)))
                      = result

\* "?a?" filled from the tokens Int:2:8, Int:1:7 listed in that order
C11_Witness ==
    /\ Done("substitute")
    /\ argQuery = <<"?", "a", "?">>
    /\ argParams = << Token(<<"I","n","t">>, <<"2">>, <<"8">>),
                      Token(<<"I","n","t">>, <<"1">>, <<"7">>) >>
    /\ result.ok
    /\ result.sql = <<"7", "a", "8">>

-----------------------------------------------------------------------------
\* the positions 1..n of the n placeholders of the query that no token declares
Unresolved(q, tokens) ==
    {k \in 1..Rank(q, Len(q)) : Declares(tokens, k) = {}}

\* C12: substitute fails whenever some placeholder's position has no mapped
\* value; when the map was built (every three-part token has an integer
\* POSITION) the error names the first unresolved position in order of
\* appearance, no text is returned with the error, and substitute succeeds
\* when no position is unresolved.
C12_MissingPositionFails ==
    Done("substitute") =>
        /\ Unresolved(argQuery, argParams) # {} => ~result.ok
        /\ BadPosition(argParams) = {} =>
              IF Unresolved(argQuery, argParams) # {}
              THEN /\ ~result.ok
                   /\ result.missing = MinOf(Unresolved(argQuery, argParams))
                   /\ result.sql = <<>>
              ELSE result.ok

\* a template with two placeholders and only a position-1 token: the error
\* names position 2
C12_Witness ==
    /\ Done("substitute")
    /\ Rank(argQuery, Len(argQuery)) = 2
    /\ argParams = << Token(<<"I","n","t">>, <<"1">>, <<"7">>) >>
    /\ ~result.ok
    /\ result.missing = 2

-----------------------------------------------------------------------------
\* the list without the tokens whose POSITION is not an integer
RECURSIVE DropBadPosition(_)
DropBadPosition(tokens) ==
    IF tokens = <<>> THEN <<>>
    ELSE IF Len(Splitn3(Head(tokens))) = 3 /\ ~ParseI32(Splitn3(Head(tokens))[2]).ok
         THEN DropBadPosition(Tail(tokens))
         ELSE <<Head(tokens)>> \o DropBadPosition(Tail(tokens))

\* C13: a token whose POSITION is not an integer is dropped: substitute
\* gives the outcome it gives on the list without such tokens.
C13_BadPositionDropped ==
    Done("substitute") =>
        result = replace_placeholders(argQuery, SplitParams(DropBadPosition(argParams)))

\* substitute on a template without placeholder and the one token Int:x:9:
\* the call fails although the list without the token succeeds
C13_Witness ==
    /\ Done("substitute")
    /\ argQuery = <<"a">>
    /\ argParams = << Token(<<"I","n","t">>, <<"x">>, <<"9">>) >>
    /\ ~result.ok
    /\ result.missing = 0
    /\ replace_placeholders(argQuery, <<>>).ok

-----------------------------------------------------------------------------
\* the list without the tokens that a later token of the same position shadows
WithoutShadowed(tokens) ==
    LET valid == ThreePart(tokens) \ BadPosition(tokens)
        pos(j) == ParseI32(Splitn3(tokens[j])[2]).val
        keep  == {j \in 1..Len(tokens) :
                    ~(j \in valid /\ \E h \in valid : h > j /\ pos(h) = pos(j))}
    IN  [n \in 1..Cardinality(keep) |-> tokens[Ascending(keep)[n]]]

\* C14: when several tokens declare the same POSITION the last of them in
\* list order supplies the literal, whether or not one of them has the value
\* null: substitute gives the outcome it gives on the list without the
\* earlier tokens of a duplicated position.
C14_LastDuplicateWins ==
    Done("substitute") =>
        result = replace_placeholders(argQuery, SplitParams(WithoutShadowed(argParams)))

\* "?" filled from Int:1:7 followed by Int:1:null
C14_Witness ==
    /\ Done("substitute")
    /\ argQuery = <<"?">>
    /\ argParams = << Token(<<"I","n","t">>, <<"1">>, <<"7">>),
                      Token(<<"I","n","t">>, <<"1">>, <<"n","u","l","l">>) >>
    /\ result.ok
    /\ result.sql = <<"N","U","L","L">>

-----------------------------------------------------------------------------
(* The fields of a raw token, read off its text                            *)

Colons(token) == {k \in 1..Len(token) : token[k] = ":"}

TypeText(token) == SubSeq(token, 1, MinOf(Colons(token)) - 1)

\* the text after the second ':' of the token, whatever it contains
ValueText(token) ==
    SubSeq(token, MinOf(Colons(token) \ {MinOf(Colons(token))}) + 1, Len(token))

\* the type name in lower case, for the comparison that ignores case
TypeIs(token, names) == ToLowercase(TypeText(token)) \in names

\* the tokens that supply the literals of the placeholders of the query
Winners(q, tokens) ==
    {MaxOf(Declares(tokens, k)) : k \in {n \in 1..Rank(q, Len(q)) : Declares(tokens, n) # {}}}

\* the query with each placeholder replaced by Lit applied to the token that
\* supplies it
FilledBy(q, tokens, Lit(_)) ==
    Flatten([j \in 1..Len(q) |->
        IF q[j] = "?" THEN Lit(tokens[MaxOf(Declares(tokens, Rank(q, j)))])
        ELSE <<q[j]>>])

\* the value between single quotes, every single quote of the value written twice
QuotedText(v) ==
    <<"'">> \o Flatten([k \in 1..Len(v) |-> IF v[k] = "'" THEN <<"'", "'">> ELSE <<v[k]>>])
            \o <<"'">>

NullText == <<"n","u","l","l">>

QuotedFamily  == { <<"s","t","r","i","n","g">>, <<"t","i","m","e","s","t","a","m","p">>,
                   <<"d","a","t","e">> }
BooleanFamily == { <<"b","o","o","l","e","a","n">> }
NumericFamily == { <<"b","i","g","d","e","c","i","m","a","l">>, <<"n","u","m","b","e","r">>,
                   <<"i","n","t">>, <<"l","o","n","g">>, <<"f","l","o","a","t">>,
                   <<"d","o","u","b","l","e">> }

\* C15: a token whose VALUE is exactly "null" is substituted as the unquoted
\* literal NULL whatever its TYPE: when every placeholder is supplied by
\* such a token, the result is the template with NULL in place of each "?".
C15_NullBeforeType ==
    (/\ Done("substitute") /\ result.ok
     /\ \A j \in Winners(argQuery, argParams) : ValueText(argParams[j]) = NullText)
    => result.sql = FilledBy(argQuery, argParams, LAMBDA t : <<"N","U","L","L">>)

\* "?" filled from String:1:null
C15_Witness ==
    /\ Done("substitute")
    /\ argQuery = <<"?">>
    /\ argParams = << Token(<<"S","t","r","i","n","g">>, <<"1">>, NullText) >>
    /\ result.ok
    /\ result.sql = <<"N","U","L","L">>

-----------------------------------------------------------------------------
\* C16: a value other than "null" of TYPE string, timestamp or date (in any
\* letter case) is substituted between single quotes with every embedded
\* single quote doubled, the value being the whole text after the second ':'
\* of the token.
C16_QuotedTypes ==
    (/\ Done("substitute") /\ result.ok
     /\ \A j \in Winners(argQuery, argParams) :
           /\ ValueText(argParams[j]) # NullText
           /\ TypeIs(argParams[j], QuotedFamily))
    => result.sql = FilledBy(argQuery, argParams, LAMBDA t : QuotedText(ValueText(t)))

\* "?" filled from STRING:1:o'k
C16_Witness ==
    /\ Done("substitute")
    /\ argQuery = <<"?">>
    /\ argParams = << Token(<<"S","T","R","I","N","G">>, <<"1">>, <<"o","'","k">>) >>
    /\ result.ok
    /\ result.sql = <<"'", "o", "'", "'", "k", "'">>

-----------------------------------------------------------------------------
\* the literal of a value other than "null" by the type rules for boolean,
\* numeric and unknown types; Plain(c) says which characters of a value of
\* unknown type let it stand unquoted
UnquotedRule(token, Plain(_)) ==
    LET v == ValueText(token) IN
    IF TypeIs(token, BooleanFamily) THEN ToUppercase(v)
    ELSE IF TypeIs(token, NumericFamily) THEN v
    ELSE IF \A k \in 1..Len(v) : Plain(v[k]) THEN v
    ELSE QuotedText(v)

\* every placeholder is supplied by a token whose value is not "null" and
\* whose type is outside the quoted family
UnquotedWinners ==
    \A j \in Winners(argQuery, argParams) :
        /\ ValueText(argParams[j]) # NullText
        /\ ~TypeIs(argParams[j], QuotedFamily)

\* C17 as stated: a value other than "null" is substituted upper-cased when
\* its TYPE is boolean, as it is and unquoted when its TYPE is bigdecimal,
\* number, int, long, float or double, and for any other type outside the
\* quoted family as it is when all its characters are the digits 0-9 or
\* '.', else quoted and escaped as a string (types compared in any letter
\* case).
C17_UnknownVerbatimIfDigits ==
    (Done("substitute") /\ result.ok /\ UnquotedWinners)
    => result.sql =
          FilledBy(argQuery, argParams,
                   LAMBDA t : UnquotedRule(t, LAMBDA c :
                       c \in {"0","1","2","3","4","5","6","7","8","9","."}))

\* C17 as amended: the same, except that a value of unknown type stands
\* unquoted when all its characters are numeric characters (any character
\* of a Unicode number category, the digits 0-9 among them) or '.'.
C17_UnknownVerbatimIfNumeric ==
    (Done("substitute") /\ result.ok /\ UnquotedWinners)
    => result.sql =
          FilledBy(argQuery, argParams,
                   LAMBDA t : UnquotedRule(t, LAMBDA c : IsNumeric(c) \/ c = "."))

\* "?" filled from Xml:1:½, an unknown type with a value made of a numeric
\* character that is not one of the digits 0-9: the value stands unquoted
C17_Witness ==
    /\ Done("substitute")
    /\ argQuery = <<"?">>
    /\ argParams = << Token(<<"X","m","l">>, <<"1">>, <<"½">>) >>
    /\ result.ok
    /\ result.sql = <<"½">>

-----------------------------------------------------------------------------
(* Vocabulary of the processor properties                                  *)

\* the places <<g, m>> of the groups: member m of group g
Members(groups, n) ==
    {p \in (1..Len(groups)) \X (1..n) : p[2] <= Len(groups[p[1]].executions)}

\* C18: the groups of processQuery partition its execution list: every
\* execution of the list is the member of exactly one place of the groups and
\* the groups hold nothing else, the groups are ordered by the first
\* appearance of their template in the list, and the members of a group keep
\* the order they have in the list.
C18_GroupsPartitionExecutions ==
    Done("processQuery") =>
        LET ex == result.executions
            gs == result.groups
            at == Members(gs, Len(ex))
        IN  /\ Cardinality(at) = Len(ex)
            /\ \A g \in 1..Len(gs) : Len(gs[g].executions) <= Len(ex)
            /\ \A k \in 1..Len(ex) :
                  Cardinality({p \in at : gs[p[1]].executions[p[2]] = ex[k]}) = 1
            /\ \A g, h \in 1..Len(gs) :
                  g < h =>
                      MinOf({k \in 1..Len(ex) : ex[k].sql = gs[g].template_sql})
                        < MinOf({k \in 1..Len(ex) : ex[k].sql = gs[h].template_sql})
            /\ \A g \in 1..Len(gs) : \A m, n \in 1..Len(gs[g].executions) :
                  m < n => gs[g].executions[m].execution_index
                             < gs[g].executions[n].execution_index

\* three executions whose templates alternate: the first group holds the
\* first and the third, the second group the second
C18_Witness ==
    /\ Done("processQuery")
    /\ Len(result.executions) = 3
    /\ Len(result.groups) = 2
    /\ result.groups[1].executions = <<result.executions[1], result.executions[3]>>
    /\ result.groups[2].executions = <<result.executions[2]>>

-----------------------------------------------------------------------------
\* C19: in every group returned by processQuery or processLastQuery each
\* member's sql is the group's template_sql, character for character, no
\* group is empty, and no two groups of one result have the same
\* template_sql; executions whose sql differ in any character are in
\* different groups.
C19_GroupKeyIsExactSql ==
    (Done("processQuery") \/ Done("processLastQuery")) =>
        LET gs == result.groups IN
        /\ \A g \in 1..Len(gs) :
              /\ gs[g].executions # <<>>
              /\ \A m \in 1..Len(gs[g].executions) :
                    gs[g].executions[m].sql = gs[g].template_sql
        /\ \A g, h \in 1..Len(gs) : g # h => gs[g].template_sql # gs[h].template_sql

\* two groups whose templates differ by a trailing space only
C19_Witness ==
    /\ Done("processQuery")
    /\ Len(result.groups) = 2
    /\ result.groups[1].template_sql # result.groups[2].template_sql
    /\ Trim(result.groups[1].template_sql) = Trim(result.groups[2].template_sql)
    /\ Len(result.groups[1].executions) = 2

-----------------------------------------------------------------------------
\* C20: processQuery reports the error "ID not found: <id>" exactly when
\* findAllExecutionsById returns the empty list, and then executions, groups,
\* the filled and the formatted texts are empty and the clipboard is not
\* called; for every result of processQuery and processLastQuery, success()
\* holds exactly when no error is set.
C20_ErrorIffNotFound ==
    /\ Done("processQuery") =>
          /\ (result.error # <<>>)
                <=> (parse_log_file_advanced(fileExists, file, target) = <<>>)
          /\ result.error # <<>> =>
                /\ result.error = <<"ID not found: ", target>>
                /\ result.executions = <<>>
                /\ result.groups = <<>>
                /\ result.filled_sql = <<>>
                /\ result.formatted_sql = <<>>
                /\ result.formatted_params = <<>>
                /\ ~result.copied_to_clipboard
                /\ clipboard = <<>>
    /\ (Done("processQuery") \/ Done("processLastQuery")) =>
          (success(result) <=> result.error = <<>>)

\* processQuery with auto_copy on a file that has executions of id a only,
\* called for id b
C20_Witness ==
    /\ Done("processQuery")
    /\ autoCopy
    /\ target = "b"
    /\ SqlEvents(file, "a") # {}
    /\ ParamsAfterTemplate(file, "a") # {}
    /\ result.error = <<"ID not found: ", "b">>
    /\ clipboard = <<>>

-----------------------------------------------------------------------------
\* the execution of a list that has the greatest execution_index
GreatestIndex(executions) ==
    executions[CHOOSE k \in 1..Len(executions) :
        \A h \in 1..Len(executions) :
            executions[h].execution_index <= executions[k].execution_index]

-----------------------------------------------------------------------------
\* the result the finished call gives when the copy step is switched off
ResultWithoutCopy ==
    IF op = "processQuery"
    THEN process_query(fileExists, file, target, FALSE, FALSE)
    ELSE process_last_query(fileExists, file, FALSE, FALSE)

\* C22: one call of processQuery or processLastQuery calls the clipboard at
\* most once, and only with autoCopy set, no error and a non-empty filled
\* text, which is the text it passes; the outcome of the copy is what
\* copied_to_clipboard records, and a copy that fails leaves error absent and
\* every other field of the result as it is without the copy.
C22_ClipboardAtMostOnce ==
    (Done("processQuery") \/ Done("processLastQuery")) =>
        /\ Len(clipboard) <= 1
        /\ clipboard # <<>> =>
              /\ autoCopy
              /\ result.error = <<>>
              /\ result.filled_sql # <<>>
              /\ clipboard[1].text = result.filled_sql
        /\ result.copied_to_clipboard <=> (clipboard # <<>> /\ clipboard[1].ok)
        /\ (clipboard # <<>> /\ ~clipboard[1].ok) =>
              /\ result.error = <<>>
              /\ result = ResultWithoutCopy
        /\ [result EXCEPT !.copied_to_clipboard = FALSE] = ResultWithoutCopy

\* processLastQuery with autoCopy whose one copy fails
C22_Witness ==
    /\ Done("processLastQuery")
    /\ autoCopy
    /\ result.filled_sql # <<>>
    /\ clipboard = << [text |-> result.filled_sql, ok |-> FALSE] >>
    /\ ~result.copied_to_clipboard
    /\ result.error = <<>>
    /\ Len(result.executions) = 1

-----------------------------------------------------------------------------
\* C23: processLastQuery sets the error "No SQL queries found in log file"
\* exactly when findLastQuery returns not-found, and then it has no
\* executions and no groups; otherwise it returns exactly one Execution, with
\* execution_index 1 and the placeholder timestamp, and exactly one group
\* that holds exactly that execution, both with the id, sql and params of the
\* query found.
C23_LastQueryOneExecution ==
    Done("processLastQuery") =>
        LET q == get_last_query(fileExists, file) IN
        /\ (result.error # <<>>) <=> ~found(q)
        /\ result.error # <<>> =>
              /\ result.error = <<"No SQL queries found in log file">>
              /\ result.executions = <<>>
              /\ result.groups = <<>>
        /\ result.error = <<>> =>
              /\ Len(result.executions) = 1
              /\ result.executions[1].execution_index = 1
              /\ result.executions[1].timestamp = "Last Execution"
              /\ result.executions[1].id = q.id
              /\ result.executions[1].sql = q.sql
              /\ result.executions[1].params = q.params
              /\ Len(result.groups) = 1
              /\ result.groups[1].executions = result.executions
              /\ result.groups[1].template_sql = q.sql

\* a file with several sql events and params lines: one execution, made of
\* the last sql event and the params line below it
C23_Witness ==
    /\ Done("processLastQuery")
    /\ Cardinality(SqlEvents(file, "a")) >= 2
    /\ Cardinality(ParamsEvents(file, "a")) >= 2
    /\ Len(result.executions) = 1
    /\ result.executions[1].params # <<>>
    /\ result.executions[1].timestamp = "Last Execution"
    /\ result.groups[1].executions = result.executions

-----------------------------------------------------------------------------
\* substitute fails for the template and params of an execution or a query
SubstituteFails(e) == ~replace_placeholders(e.sql, e.params).ok

\* C24: a substitution that fails is not fatal: an execution of
\* findAllExecutionsById or of processLastQuery whose substitution fails is
\* emitted with filled_sql equal to its template sql; the executions of the
\* scan are as many as the params lines below a template and are numbered
\* 1..n in order, whether substitutions fail or not; and the result carries no
\* error.
C24_SubstituteFailureNotFatal ==
    /\ Done("processQuery") =>
          LET ex == result.executions IN
          /\ \A k \in 1..Len(ex) :
                /\ ex[k].execution_index = k
                /\ SubstituteFails(ex[k]) => ex[k].filled_sql = ex[k].sql
          /\ ParamsAfterTemplate(file, target) # {} =>
                Len(ex) = Cardinality(ParamsAfterTemplate(file, target))
          /\ (\E k \in 1..Len(ex) : SubstituteFails(ex[k])) => result.error = <<>>
    /\ Done("processLastQuery") =>
          \A k \in 1..Len(result.executions) :
              SubstituteFails(result.executions[k]) =>
                  /\ result.executions[k].filled_sql = result.executions[k].sql
                  /\ result.filled_sql = result.query.sql
                  /\ result.error = <<>>

\* three executions of which the second has a failing substitution and the
\* two others a filled text
C24_Witness ==
    /\ Done("processQuery")
    /\ Len(result.executions) = 3
    /\ ~SubstituteFails(result.executions[1])
    /\ SubstituteFails(result.executions[2])
    /\ ~SubstituteFails(result.executions[3])
    /\ result.executions[1].filled_sql # result.executions[1].sql
    /\ result.executions[2].filled_sql = result.executions[2].sql
    /\ result.executions[3].execution_index = 3
    /\ result.error = <<>>

\* processLastQuery on a query whose params do not fill the placeholder
C24_LastQueryFallback ==
    /\ Done("processLastQuery")
    /\ result.query.params # <<>>
    /\ SubstituteFails(result.query)
    /\ result.filled_sql = result.query.sql
    /\ result.error = <<>>

-----------------------------------------------------------------------------
\* the number of lines after the SQL line that find_dao_class_name reads
DaoWindowLines == DaoWindow - 1

\* the lines of the forward window of the SQL line at index k that carry the
\* DAO marker
MarkersInWindow(lines, k) ==
    {h \in (k + 1)..Min(Len(lines), k + DaoWindowLines) : DaoMatches(lines[h])}

\* C25: the DAO attribution of the SQL line at index i is the class name of
\* the first line after i, inside a forward window of at most 50 lines, that
\* carries the DAO marker; with no such line in the window (the only markers
\* lie beyond the window or above line i, or there is none) it is "Unknown".
C25_DaoFromForwardWindow ==
    /\ DaoWindowLines <= 50
    /\ Done("findDaoClassName") =>
          LET hits == MarkersInWindow(file, i) IN
          /\ hits = {} => result = "Unknown"
          /\ hits # {} => result = file[MinOf(hits)].dao

\* the last line of the window carries one marker and the line below it
\* another: the first is taken
C25_Witness ==
    /\ Done("findDaoClassName")
    /\ i = 2
    /\ DaoMatches(file[1])
    /\ MarkersInWindow(file, i) = {i + DaoWindowLines}
    /\ Len(file) > i + DaoWindowLines
    /\ DaoMatches(file[i + DaoWindowLines + 1])
    /\ result = file[i + DaoWindowLines].dao
    /\ result # file[i + DaoWindowLines + 1].dao

\* the only marker after the SQL line is the 50th line below it: Unknown
C25_BeyondWindow ==
    /\ Done("findDaoClassName")
    /\ {h \in (i + 1)..Len(file) : DaoMatches(file[h])} = {i + 50}
    /\ result = "Unknown"

-----------------------------------------------------------------------------
\* what findById is to return from a file: the trimmed text of the first sql
\* event of the id and the tokens of the first params event of the id
FirstEventsOf(lines, id) ==
    [id |-> id,
     sql |-> IF SqlEvents(lines, id) = {} THEN <<>>
             ELSE Trim(lines[MinOf(SqlEvents(lines, id))].rest),
     params |-> IF ParamsEvents(lines, id) = {} THEN <<>>
                ELSE lines[MinOf(ParamsEvents(lines, id))].toks]

\* C26: findById returns the SQL of the first sql event of the id and the
\* tokens of the first params event of the id anywhere in the file, each
\* chosen without regard to the other (the params line may lie above the sql
\* line), and later sql or params events of the id do not change the result.
C26_FirstEventsIndependent ==
    (Done("findById") \/ Done("tauriFindById")) =>
        result = FirstEventsOf(IF fileExists THEN file ELSE <<>>, target)

\* the same statement for the line-streamed scan alone
C26_StreamedFirstEvents ==
    Done("findById") => result = FirstEventsOf(IF fileExists THEN file ELSE <<>>, target)

\* the line-streamed findById on a file whose first params line lies above the
\* first sql line, with a later sql event of another text
C26_StreamedWitness ==
    /\ Done("findById")
    /\ Len(file) = 3
    /\ ParamsEvents(file, target) = {1}
    /\ SqlEvents(file, target) = {2, 3}
    /\ Trim(file[2].rest) # Trim(file[3].rest)
    /\ result.sql = Trim(file[2].rest)
    /\ result.params = file[1].toks
    /\ result.params # <<>>

\* the whole-file findById on a file whose line "id=a sql=" has nothing after
\* the marker and is followed by a line of another kind: the id has no sql
\* event, and the text of that line is returned as its SQL
C26_Witness ==
    /\ Done("tauriFindById")
    /\ Len(file) = 2
    /\ file[1].mark = "sql" /\ file[1].id = target /\ file[1].rest = <<>>
    /\ file[2].mark = "none" /\ file[2].dao # ""
    /\ SqlEvents(file, target) = {}
    /\ result.sql = LineText(file[2])

-----------------------------------------------------------------------------
\* the number of "?" in a text
Marks(text) == Rank(text, Len(text))

\* the literals that fill the placeholders 1..n of the query, in order
\* (defined when every position has a token)
InsertedLiterals(q, tokens) ==
    [k \in 1..Marks(q) |-> LiteralOf(tokens, MaxOf(Declares(tokens, k)))]

\* the token with every "?" after its second ':' replaced by "a"
MaskValue(token) ==
    [h \in 1..Len(token) |->
        IF token[h] = "?" /\ Cardinality(Colons(SubSeq(token, 1, h))) >= 2 THEN "a" ELSE token[h]]

\* C27: substitute does not rescan what it inserts: a "?" inside a value is
\* copied as data and uses no position.  The positions used are those of the
\* "?" of the template, 1..n, so the call succeeds exactly when these have a
\* value; every "?" of the result comes from a value and the result is the
\* template with n characters replaced by the n literals; and whether the
\* call succeeds does not depend on values containing "?".
C27_InsertedTextNotRescanned ==
    Done("substitute") =>
        /\ BadPosition(argParams) = {} =>
              (result.ok <=> \A k \in 1..Marks(argQuery) : Declares(argParams, k) # {})
        /\ result.ok =>
              LET inserted == Flatten(InsertedLiterals(argQuery, argParams)) IN
              /\ Marks(result.sql) = Marks(inserted)
              /\ Len(result.sql) = Len(argQuery) - Marks(argQuery) + Len(inserted)
        /\ replace_placeholders(argQuery,
               SplitParams([k \in 1..Len(argParams) |-> MaskValue(argParams[k])])).ok
             = result.ok

\* "??" filled from Int:1:? and String:2:??: the result has three "?", all of
\* them data, and positions 1 and 2 were enough
C27_Witness ==
    /\ Done("substitute")
    /\ argQuery = <<"?", "?">>
    /\ argParams = << Token(<<"I","n","t">>, <<"1">>, <<"?">>),
                      Token(<<"S","t","r","i","n","g">>, <<"2">>, <<"?", "?">>) >>
    /\ result.ok
    /\ result.sql = <<"?", "'", "?", "?", "'">>

-----------------------------------------------------------------------------
(* Vocabulary of the command properties                                    *)

\* the mutexes thread t holds
Held(t) == {m \in Mutexes : state[m].holder = t}

\* the mutex whose lock() thread t stands before ("" when it stands elsewhere)
Wanted(t) ==
    LET c == commands[t] IN
    IF c.pc = "start" /\ c.cmd \in {"process_query", "process_last_query"}
    THEN "query_processor"
    ELSE IF c.pc = "start" /\ c.cmd \in ConnectionCommands THEN "connection_manager"
    ELSE IF c.pc = "start" /\ c.cmd = "load_config" THEN "config"
    ELSE IF c.pc = "start" /\ c.cmd = "save_config" THEN "config_manager"
    ELSE IF c.pc = "manager" THEN "config"
    ELSE IF c.pc = "changed" THEN "query_processor"
    ELSE IF c.pc = "block_end" THEN "config"
    ELSE ""

\* thread t waits for a mutex that thread u holds
WaitsFor(t, u) == Wanted(t) # "" /\ state[Wanted(t)].holder = u

\* the threads reached from t by following WaitsFor at most n times
RECURSIVE WaitChain(_, _)
WaitChain(S, n) ==
    IF n = 0 THEN S
    ELSE WaitChain(S \cup {u \in Threads : \E t \in S : WaitsFor(t, u)}, n - 1)

\* thread t runs process_query or process_last_query
Scans(t) == commands[t].cmd \in {"process_query", "process_last_query"}

\* C28: whatever commands run concurrently, the scan of a process_query or
\* process_last_query call reads the file with the encoding given to that
\* call: from its set_encoding to the end of its scan the encoding of the
\* shared parser is the call's argument.
C28_ScanUsesCallEncoding ==
    \A t \in Threads :
        Scans(t) =>
            /\ commands[t].pc \in {"set", "scanned"} =>
                  state.query_processor.encoding = commands[t].encoding
            /\ commands[t].pc = "scanned" =>
                  commands[t].used = commands[t].encoding

\* a process_query call has scanned with its encoding while a save_config
\* with another encoding, holding config_manager and config, stands before
\* query_processor.lock()
C28_Witness ==
    \E t, u \in Threads :
        /\ Scans(t) /\ commands[t].pc = "scanned"
        /\ commands[u].cmd = "save_config" /\ commands[u].pc = "changed"
        /\ commands[u].encoding # commands[t].encoding
        /\ commands[t].used = commands[t].encoding

-----------------------------------------------------------------------------
\* some thread has a command under way
Running == \E t \in Threads : commands[t].pc \notin {"idle", "done"}

\* C29: the commands cannot deadlock on the mutexes of AppState: no thread
\* waits, directly or through other waiting threads, for a mutex it holds
\* itself or that a thread waiting for it holds; while a command is under way
\* some thread can take a step; and every command releases the mutexes it
\* took: from some point on no thread holds any.
C29_NoDeadlock ==
    /\ [](\A t \in Threads :
             t \notin WaitChain({u \in Threads : WaitsFor(t, u)}, MaxThreads))
    /\ [](Running => \E t \in Threads : ENABLED CommandStep(t))
    /\ <>[](\A t \in Threads : Held(t) = {})

\* save_config holds config_manager and config and waits for query_processor,
\* which a process_query or process_last_query call holds
C29_Witness ==
    \E t, u \in Threads :
        /\ commands[t].cmd = "save_config" /\ commands[t].pc = "changed"
        /\ Held(t) = {"config_manager", "config"}
        /\ WaitsFor(t, u) /\ Scans(u)


-----------------------------------------------------------------------------
\* the fields of the reported executions that the append-only statement
\* compares: (execution_index, sql, params, filled_sql), in list order
Reported(execs) ==
    [k \in 1..Len(execs) |->
        <<execs[k].execution_index, execs[k].sql, execs[k].params, execs[k].filled_sql>>]

IsPrefix(s, t) == Len(s) <= Len(t) /\ \A k \in 1..Len(s) : s[k] = t[k]

\* the earlier contents of the file (whole lines only) that already hold,
\* for the id, a sql event followed by at least one params line
EarlierFiles(lines, id) ==
    {n \in 1..(Len(lines) - 1) : ParamsAfterTemplate(SubSeq(lines, 1, n), id) # {}}

\* C30: append-only stability of findAllExecutionsById, in both scanner
\* variants: when an earlier content F of the file holds, for the target
\* id, a sql event followed by at least one params line, and the file is F
\* with further whole lines appended, the (execution_index, sql, params,
\* filled_sql) sequence returned for F is a prefix of the one returned for
\* the file.
C30_AppendOnlyStable ==
    /\ Done("findAllExecutionsById") =>
          \A n \in EarlierFiles(file, target) :
             IsPrefix(Reported(parse_log_file_advanced(TRUE, SubSeq(file, 1, n), target)),
                      Reported(result))
    /\ Done("tauriFindAllExecutionsById") =>
          \A n \in EarlierFiles(file, target) :
             IsPrefix(Reported(TauriParseLogFileAdvanced(TRUE, SubSeq(file, 1, n), target)),
                      Reported(result))

\* the same statement for the line-streamed scan alone, with its step form:
\* while the scan runs, the executions appended so far are those returned
\* for the lines read so far
C30_StreamedAppendOnlyStable ==
    /\ Done("findAllExecutionsById") =>
          \A n \in EarlierFiles(file, target) :
             IsPrefix(Reported(parse_log_file_advanced(TRUE, SubSeq(file, 1, n), target)),
                      Reported(result))
    /\ (pc = "scan" /\ (i - 1) \in EarlierFiles(file, target)) =>
          Reported(adv.executions) =
             Reported(parse_log_file_advanced(TRUE, SubSeq(file, 1, i - 1), target))

\* the line-streamed scan on a file whose first two lines already gave one
\* execution and whose appended third line is a sql event with another text
C30_StreamedWitness ==
    /\ Done("findAllExecutionsById")
    /\ Len(file) = 3
    /\ 2 \in EarlierFiles(file, target)
    /\ SqlEvents(file, target) = {1, 3}
    /\ SqlTextAt(file, 3) # SqlTextAt(file, 1)
    /\ Len(result) = 1
    /\ result[1].sql = SqlTextAt(file, 1)

\* the whole-file scan on such a file: the appended correlated sql event
\* replaces the sql of the execution that was reported before the append
C30_Witness ==
    /\ Done("tauriFindAllExecutionsById")
    /\ Len(file) = 3
    /\ 2 \in EarlierFiles(file, target)
    /\ FullSqlEvents(file, target) = {1, 3}
    /\ SqlTextAt(file, 3) # SqlTextAt(file, 1)
    /\ Len(result) = 1
    /\ result[1].sql = SqlTextAt(file, 3)
    /\ TauriParseLogFileAdvanced(TRUE, SubSeq(file, 1, 2), target)[1].sql = SqlTextAt(file, 1)

====
